---- MODULE Spec2Model ----
(***************************************************************************)
(* A model of the markdown transformation core of book-boilerplate:        *)
(*   devops/merge.py      demote_headers, merge_volume, main               *)
(*   devops/entitize.py   replace_entities                                 *)
(*   devops/customize.py  apply_styles, process_file                       *)
(* Text is a sequence of one-character strings; a line is such a sequence, *)
(* ending with its "\n" when it has one.                                   *)
(***************************************************************************)
EXTENDS Integers, Sequences, FiniteSets, TLC

VARIABLES
    pc,                 \* position of the running function
    content,            \* the text passed to the running function
    i,                  \* loop index (1-based)
    lines,              \* content split into lines
    processed_content,  \* the text handed to the output file
    styles_config,      \* customize: the loaded style rule set
    out_lines,          \* customize.process_file: emitted pieces
    buffer,             \* customize.process_file: pending plain lines
    in_fenced,          \* customize.process_file: fence tracker
    entities,           \* entitize: the entity table
    fragment,           \* merge: the fragment first given to demote_headers
    result_lines,       \* merge.demote_headers: lines produced so far
    returned,           \* merge.demote_headers: values returned so far
    input_fs,           \* merge: input subdirectories and their files
    output_fs,          \* merge: files of the output directory
    args,               \* the parsed command line of the running main
    rc,                 \* the exit code of the running main, -1 until it returns
    pattern_index,      \* customize.apply_styles: index in the current style
    warnings,           \* customize.apply_styles: logger.warning calls made
    fs,                 \* the pipeline: the directories and their files
    env,                \* the pipeline: configuration files and external tools
    trace,              \* the pipeline: the calls made so far, with results
    success             \* build.main: the success flag

commonVars    == <<pc, content, i, lines, processed_content>>
customizeVars == <<styles_config, out_lines, buffer, in_fenced>>
entitizeVars  == <<entities>>
demoteVars    == <<fragment, result_lines, returned>>
mergeVars     == <<input_fs, output_fs, args, rc>>
stylesVars    == <<pattern_index, warnings>>
pipelineVars  == <<fs, env, trace, success>>

vars == <<commonVars, customizeVars, entitizeVars, demoteVars, mergeVars,
          stylesVars, pipelineVars>>

IdleCustomize ==
    styles_config = <<>> /\ out_lines = <<>> /\ buffer = <<>> /\ in_fenced = FALSE

IdleEntitize == entities = <<>>

IdleDemote == fragment = <<>> /\ result_lines = <<>> /\ returned = <<>>

\* rc is -1 until main returns.
IdleMerge == input_fs = <<>> /\ output_fs = <<>> /\ args = <<>> /\ rc = -1

IdleStyles == pattern_index = 0 /\ warnings = 0

IdlePipeline == fs = <<>> /\ env = <<>> /\ trace = <<>> /\ success = TRUE

(***************************************************************************)
(* Bounds of the model.                                                    *)
(***************************************************************************)
\* Longest customize document, in vocabulary lines.
MaxLines == 4

\* Longest entitize document, in characters.
MaxEntLen == 7

\* Longest fragment given to demote_headers, in vocabulary lines.
MaxFragLines == 4

\* How many times in a row demote_headers is applied to a fragment.
MaxApplications == 2

\* Number of volumes of the configuration.
NumVolumes == 2

(***************************************************************************)
(* Text helpers: Python's str methods on sequences of characters.          *)
(***************************************************************************)
NL == "\n"

\* str.strip() removes these from both ends.
Whitespace == {" ", NL}

RECURSIVE LStrip(_)
LStrip(s) ==
    IF s # <<>> /\ Head(s) \in Whitespace THEN LStrip(Tail(s)) ELSE s

RECURSIVE RStrip(_)
RStrip(s) ==
    IF s # <<>> /\ s[Len(s)] \in Whitespace
    THEN RStrip(SubSeq(s, 1, Len(s) - 1))
    ELSE s

Strip(s) == RStrip(LStrip(s))

StartsWith(s, p) == Len(s) >= Len(p) /\ SubSeq(s, 1, Len(p)) = p

EndsWith(s, p) ==
    Len(s) >= Len(p) /\ SubSeq(s, Len(s) - Len(p) + 1, Len(s)) = p

\* ''.join(parts)
RECURSIVE Join(_)
Join(parts) ==
    IF parts = <<>> THEN <<>> ELSE Head(parts) \o Join(Tail(parts))

\* Index of the first "\n" of s, 0 when it has none.
RECURSIVE FirstNL(_, _)
FirstNL(s, k) ==
    IF k > Len(s) THEN 0
    ELSE IF s[k] = NL THEN k
    ELSE FirstNL(s, k + 1)

\* str.splitlines(keepends=True): every line keeps its "\n"; no empty last line.
RECURSIVE SplitLinesKeep(_)
SplitLinesKeep(s) ==
    IF s = <<>> THEN <<>>
    ELSE LET k == FirstNL(s, 1) IN
         IF k = 0 THEN <<s>>
         ELSE <<SubSeq(s, 1, k)>> \o SplitLinesKeep(SubSeq(s, k + 1, Len(s)))

\* All sequences over S of length at most n.
RECURSIVE SeqsUpTo(_, _)
SeqsUpTo(S, n) ==
    IF n = 0 THEN {<<>>}
    ELSE LET shorter == SeqsUpTo(S, n - 1)
         IN  shorter \cup {Append(s, x) : s \in shorter, x \in S}

(***************************************************************************)
(* re.sub(pattern, replacement, text, flags=re.MULTILINE) for the patterns *)
(* the model's rule sets use: an optional leading "^", literal characters, *)
(* an optional trailing "$"; a pattern holding "(" with no ")" does not    *)
(* compile (re.error).  Replacements are literal text.                     *)
(***************************************************************************)
ReMalformed(pattern) ==
    /\ \E k \in 1..Len(pattern) : pattern[k] = "("
    /\ ~ \E k \in 1..Len(pattern) : pattern[k] = ")"

ReAnchoredStart(pattern) == pattern # <<>> /\ pattern[1] = "^"

ReAnchoredEnd(pattern) == pattern # <<>> /\ pattern[Len(pattern)] = "$"

ReLiteral(pattern) ==
    SubSeq(pattern,
           IF ReAnchoredStart(pattern) THEN 2 ELSE 1,
           IF ReAnchoredEnd(pattern) THEN Len(pattern) - 1 ELSE Len(pattern))

\* "^" under MULTILINE: at the start of the text and right after every "\n".
AtLineStart(text, p) == p = 1 \/ text[p - 1] = NL

\* "$" under MULTILINE: at the end of the text and right before every "\n".
AtLineEnd(text, p) == p = Len(text) + 1 \/ text[p] = NL

\* Whether the pattern matches text starting at index p (1..Len(text)+1).
ReMatchAt(pattern, text, p) ==
    LET lit == ReLiteral(pattern) IN
    /\ ReAnchoredStart(pattern) => AtLineStart(text, p)
    /\ p + Len(lit) - 1 <= Len(text)
    /\ SubSeq(text, p, p + Len(lit) - 1) = lit
    /\ ReAnchoredEnd(pattern) => AtLineEnd(text, p + Len(lit))

\* Leftmost, non-overlapping substitution from index p on; an empty match
\* inserts the replacement and the scan moves on by one character.
RECURSIVE ReSubFrom(_, _, _, _)
ReSubFrom(pattern, replacement, text, p) ==
    IF p > Len(text) + 1 THEN <<>>
    ELSE LET n    == Len(ReLiteral(pattern))
             here == IF p <= Len(text) THEN <<text[p]>> ELSE <<>>
         IN  IF ReMatchAt(pattern, text, p)
             THEN IF n > 0
                  THEN replacement \o ReSubFrom(pattern, replacement, text, p + n)
                  ELSE replacement \o here
                       \o ReSubFrom(pattern, replacement, text, p + 1)
             ELSE here \o ReSubFrom(pattern, replacement, text, p + 1)

ReSub(pattern, replacement, text) == ReSubFrom(pattern, replacement, text, 1)

(***************************************************************************)
(* customize.apply_styles                                                  *)
(* styles_config is the ordered sequence of styles; a style is the ordered *)
(* sequence of its pattern definitions [pattern, replacement]; a missing   *)
(* key reads as the empty text, as .get(key, '') does.                     *)
(***************************************************************************)
\* One pattern definition applied to the text (customize.py lines 53-62).
ApplyPattern(text, pattern_def) ==
    IF pattern_def.pattern # <<>> /\ pattern_def.replacement # <<>>
    THEN IF ReMalformed(pattern_def.pattern)
         THEN text
         ELSE ReSub(pattern_def.pattern, pattern_def.replacement, text)
    ELSE text

RECURSIVE ApplyPatterns(_, _)
ApplyPatterns(text, patterns) ==
    IF patterns = <<>> THEN text
    ELSE ApplyPatterns(ApplyPattern(text, Head(patterns)), Tail(patterns))

RECURSIVE apply_styles(_, _)
apply_styles(text, styles) ==
    IF styles = <<>> THEN text
    ELSE apply_styles(ApplyPatterns(text, Head(styles)), Tail(styles))

(***************************************************************************)
(* Inputs of the customize stage.                                          *)
(***************************************************************************)
FENCE == <<":", ":", ":">>

\* Lines a document is assembled from: plain text a rule matches, a bare
\* fence, a fence with attributes, an indented fence, a two-colon near miss,
\* a blank line, and text with no line ending.
CustomizeLines == {
    <<"a", "b", NL>>,
    <<":", ":", ":", NL>>,
    <<":", ":", ":", " ", "a", "b", NL>>,
    <<" ", ":", ":", ":", " ", NL>>,
    <<":", ":", "a", "b", NL>>,
    <<NL>>,
    <<"a", "b">> }

PatternDef(p, r) == [pattern |-> p, replacement |-> r]

\* No style at all.
CfgNone == <<>>

\* One literal rule.
CfgLiteral == << << PatternDef(<<"a", "b">>, <<"X">>) >> >>

\* A rule matching the empty text at every line start, and one matching fences.
CfgAnchors == << << PatternDef(<<"^">>, <<">">>),
                    PatternDef(<<":", ":", ":">>, <<"F">>) >> >>

\* A rule spanning a line break, then a style whose two rules feed each other.
CfgSpan == << << PatternDef(<<NL, ":">>, <<"+">>) >>,
              << PatternDef(<<"a">>, <<"b">>), PatternDef(<<"b">>, <<"a">>) >> >>

\* A pattern that does not compile, an empty replacement, an empty pattern,
\* and then a valid rule.
CfgSkips == << << PatternDef(<<"(">>, <<"X">>),
                  PatternDef(<<"a", "b">>, <<>>),
                  PatternDef(<<>>, <<"X">>),
                  PatternDef(<<"b", "$">>, <<"Z">>) >> >>

StyleConfigs == {CfgNone, CfgLiteral, CfgAnchors, CfgSpan, CfgSkips}

(***************************************************************************)
(* customize.process_file, lines 86-119: one action per loop branch.       *)
(***************************************************************************)
InitCustomize ==
    /\ \E ls \in SeqsUpTo(CustomizeLines, MaxLines) : content = Join(ls)
    /\ styles_config \in StyleConfigs
    /\ lines = SplitLinesKeep(content)
    /\ i = 1
    /\ out_lines = <<>>
    /\ buffer = <<>>
    /\ in_fenced = FALSE
    /\ processed_content = <<>>
    /\ pc = "scan"
    /\ IdleEntitize /\ IdleDemote /\ IdleMerge
    /\ IdleStyles /\ IdlePipeline

\* out_lines after the pending plain segment, if any, went through apply_styles.
Flushed ==
    IF buffer # <<>>
    THEN Append(out_lines, apply_styles(Join(buffer), styles_config))
    ELSE out_lines

\* FenceOpen as it would be if the pending plain lines were kept across the
\* fence and styled together with the plain lines that follow it.
FenceOpenKeepsBuffer ==
    /\ pc = "scan" /\ i <= Len(lines)
    /\ ~in_fenced /\ StartsWith(Strip(lines[i]), FENCE)
    /\ out_lines' = Append(out_lines, lines[i])
    /\ in_fenced' = TRUE
    /\ i' = i + 1
    /\ UNCHANGED <<pc, content, lines, styles_config, buffer, processed_content>>
    /\ UNCHANGED <<entitizeVars, demoteVars, mergeVars, stylesVars, pipelineVars>>

\* Lines 94-102: a fence opens.
FenceOpen ==
    /\ pc = "scan" /\ i <= Len(lines)
    /\ ~in_fenced /\ StartsWith(Strip(lines[i]), FENCE)
    /\ out_lines' = Append(Flushed, lines[i])
    /\ buffer' = <<>>
    /\ in_fenced' = TRUE
    /\ i' = i + 1
    /\ UNCHANGED <<pc, content, lines, styles_config, processed_content>>
    /\ UNCHANGED <<entitizeVars, demoteVars, mergeVars, stylesVars, pipelineVars>>

\* FenceInside as it would be if fenced lines went through the style rules.
FenceInsideStyled ==
    /\ pc = "scan" /\ i <= Len(lines)
    /\ in_fenced
    /\ out_lines' = Append(out_lines, apply_styles(lines[i], styles_config))
    /\ in_fenced' = (Strip(lines[i]) # FENCE)
    /\ i' = i + 1
    /\ UNCHANGED <<pc, content, lines, styles_config, buffer, processed_content>>
    /\ UNCHANGED <<entitizeVars, demoteVars, mergeVars, stylesVars, pipelineVars>>

\* FenceInside as it would be if any line starting with ":::" closed the fence.
FenceInsideClosesOnPrefix ==
    /\ pc = "scan" /\ i <= Len(lines)
    /\ in_fenced
    /\ out_lines' = Append(out_lines, lines[i])
    /\ in_fenced' = ~StartsWith(Strip(lines[i]), FENCE)
    /\ i' = i + 1
    /\ UNCHANGED <<pc, content, lines, styles_config, buffer, processed_content>>
    /\ UNCHANGED <<entitizeVars, demoteVars, mergeVars, stylesVars, pipelineVars>>

\* FenceInside as it would be if a blank line ended a fence left open.
FenceInsideClosesOnBlank ==
    /\ pc = "scan" /\ i <= Len(lines)
    /\ in_fenced
    /\ out_lines' = Append(out_lines, lines[i])
    /\ in_fenced' = (Strip(lines[i]) # FENCE /\ Strip(lines[i]) # <<>>)
    /\ i' = i + 1
    /\ UNCHANGED <<pc, content, lines, styles_config, buffer, processed_content>>
    /\ UNCHANGED <<entitizeVars, demoteVars, mergeVars, stylesVars, pipelineVars>>

\* Lines 105-109: a line inside a fence, the closing line included.
FenceInside ==
    /\ pc = "scan" /\ i <= Len(lines)
    /\ in_fenced
    /\ out_lines' = Append(out_lines, lines[i])
    /\ in_fenced' = (Strip(lines[i]) # FENCE)
    /\ i' = i + 1
    /\ UNCHANGED <<pc, content, lines, styles_config, buffer, processed_content>>
    /\ UNCHANGED <<entitizeVars, demoteVars, mergeVars, stylesVars, pipelineVars>>

\* PlainLine as it would be if every plain line were styled on its own.
PlainLineStyledAlone ==
    /\ pc = "scan" /\ i <= Len(lines)
    /\ ~in_fenced /\ ~StartsWith(Strip(lines[i]), FENCE)
    /\ out_lines' = Append(out_lines, apply_styles(lines[i], styles_config))
    /\ i' = i + 1
    /\ UNCHANGED <<pc, content, lines, styles_config, buffer, in_fenced,
                   processed_content>>
    /\ UNCHANGED <<entitizeVars, demoteVars, mergeVars, stylesVars, pipelineVars>>

\* Line 112: a plain line is kept for the styled segment.
PlainLine ==
    /\ pc = "scan" /\ i <= Len(lines)
    /\ ~in_fenced /\ ~StartsWith(Strip(lines[i]), FENCE)
    /\ buffer' = Append(buffer, lines[i])
    /\ i' = i + 1
    /\ UNCHANGED <<pc, content, lines, styles_config, out_lines, in_fenced,
                   processed_content>>
    /\ UNCHANGED <<entitizeVars, demoteVars, mergeVars, stylesVars, pipelineVars>>

\* Lines 114-119: the loop is over; flush and join.
FlushRemaining ==
    /\ pc = "scan" /\ i > Len(lines)
    /\ out_lines' = Flushed
    /\ buffer' = <<>>
    /\ processed_content' = Join(Flushed)
    /\ pc' = "done"
    /\ UNCHANGED <<content, i, lines, styles_config, in_fenced>>
    /\ UNCHANGED <<entitizeVars, demoteVars, mergeVars, stylesVars, pipelineVars>>

NextCustomize == FenceOpen \/ FenceInside \/ PlainLine \/ FlushRemaining

SpecCustomize == InitCustomize /\ [][NextCustomize]_vars

(***************************************************************************)
(* Properties of customize.process_file.                                   *)
(***************************************************************************)
IsPrefix(s, t) == Len(s) <= Len(t) /\ SubSeq(t, 1, Len(s)) = s

\* The fence state after the first k lines, read off the text alone (spec,
\* Fence Block): a line whose trimmed content starts with ":::" opens a fence
\* when none is open; a line whose trimmed content is ":::" closes it.
RECURSIVE InsideAfter(_, _)
InsideAfter(ls, k) ==
    IF k = 0 THEN FALSE
    ELSE IF InsideAfter(ls, k - 1)
         THEN Strip(ls[k]) # FENCE
         ELSE StartsWith(Strip(ls[k]), FENCE)

\* Line k opens a fence, lies inside one, or closes one.
IsFenceLine(ls, k) ==
    InsideAfter(ls, k - 1) \/ StartsWith(Strip(ls[k]), FENCE)

NoFenceLine(text) ==
    LET ls == SplitLinesKeep(text)
    IN  \A k \in 1..Len(ls) : ~StartsWith(Strip(ls[k]), FENCE)

\* C1: every fence opening line, fence closing line and line between them is
\* emitted as a piece of its own equal to the input line, emitted pieces are
\* never changed afterwards, and the output is the pieces joined: fenced
\* lines reach the output byte for byte, whatever the style rules match.
C1_FencedLinesVerbatim ==
    [][ /\ (pc = "scan" /\ i <= Len(lines) /\ IsFenceLine(lines, i))
            => /\ Len(out_lines') > Len(out_lines)
               /\ out_lines'[Len(out_lines')] = lines[i]
               /\ i' = i + 1
        /\ IsPrefix(out_lines, out_lines')
        /\ (pc' = "done") => (processed_content' = Join(out_lines'))
      ]_vars

\* A finished run over a fence whose inner line a style rule would rewrite.
C1_Witness ==
    /\ pc = "done"
    /\ \E k \in 2..Len(lines) :
          /\ InsideAfter(lines, k - 1) /\ InsideAfter(lines, k)
          /\ apply_styles(lines[k], styles_config) # lines[k]
          /\ apply_styles(lines[k - 1], styles_config) # lines[k - 1]

\* C2 as stated: for every document without a fence line, the empty document
\* included, the output is apply_styles of the whole text.
C2_Original ==
    (pc = "done" /\ NoFenceLine(content))
        => processed_content = apply_styles(content, styles_config)

\* C2 amended: for every non-empty document without a fence line the output
\* is apply_styles of the whole text, applied once; for the empty document
\* the output is empty and apply_styles is not applied.
C2_WholeTextOnce ==
    (pc = "done" /\ NoFenceLine(content))
        => processed_content =
              IF content = <<>> THEN <<>>
              ELSE apply_styles(content, styles_config)

\* A finished run over several plain lines that the rules rewrote.
C2_Witness ==
    /\ pc = "done"
    /\ NoFenceLine(content)
    /\ Len(lines) >= 2
    /\ processed_content # content

\* C3: the tracker is a boolean that starts OUTSIDE; a step that consumes a
\* line moves OUTSIDE to INSIDE exactly when the trimmed line starts with
\* ":::" (also when it is ":::" alone: the line is emitted and not tested as
\* a closing line), and INSIDE to OUTSIDE exactly when the trimmed line is
\* ":::"; both emit the line verbatim; no other step changes the tracker.
C3_FenceTracker ==
    [][ /\ in_fenced \in BOOLEAN /\ in_fenced' \in BOOLEAN
        /\ (i = 1) => ~in_fenced
        /\ IF pc = "scan" /\ i <= Len(lines)
           THEN LET stripped == Strip(lines[i]) IN
                /\ (~in_fenced /\ StartsWith(stripped, FENCE))
                      => (in_fenced' /\ out_lines'[Len(out_lines')] = lines[i])
                /\ (~in_fenced /\ ~StartsWith(stripped, FENCE)) => ~in_fenced'
                /\ (in_fenced /\ stripped = FENCE)
                      => (~in_fenced' /\ out_lines'[Len(out_lines')] = lines[i])
                /\ (in_fenced /\ stripped # FENCE) => in_fenced'
           ELSE in_fenced' = in_fenced
      ]_vars

\* INSIDE, right after a line such as "::: ab" that was met while INSIDE, in
\* a fence opened by a bare ":::" line.
C3_Witness ==
    /\ pc = "scan" /\ i >= 3
    /\ in_fenced
    /\ InsideAfter(lines, i - 2)
    /\ StartsWith(Strip(lines[i - 1]), FENCE) /\ Strip(lines[i - 1]) # FENCE
    /\ \E k \in 1..(i - 2) : ~InsideAfter(lines, k - 1) /\ Strip(lines[k]) = FENCE
                              /\ \A j \in k..(i - 1) : InsideAfter(lines, j)

(***************************************************************************)
(* entitize.replace_entities: re.sub of the entity reference pattern ("&", *)
(* a letter, any letters, digits and "_", then ";") with the callback      *)
(* replace_entity.                                                         *)
(***************************************************************************)
Letters == {"a", "b"}

Digits == {"1"}

\* [a-zA-Z0-9_]
NameChars == Letters \cup Digits \cup {"_"}

\* Length of the longest run of name characters of text starting at index p.
RECURSIVE NameRun(_, _)
NameRun(text, p) ==
    IF p <= Len(text) /\ text[p] \in NameChars
    THEN 1 + NameRun(text, p + 1)
    ELSE 0

\* Length of the match of the pattern at index p, 0 when it does not match:
\* "&", a letter, the greedy run of name characters, ";".
EntityMatchLen(text, p) ==
    IF p + 1 <= Len(text) /\ text[p] = "&" /\ text[p + 1] \in Letters
    THEN LET e == p + 1 + NameRun(text, p + 1)
         IN  IF e <= Len(text) /\ text[e] = ";" THEN e - p + 1 ELSE 0
    ELSE 0

\* The callback as it would be if it kept the reference's ";".
replace_entity_residual(whole, table) ==
    LET entity_name == SubSeq(whole, 2, Len(whole) - 1)
    IN  IF entity_name \in DOMAIN table
        THEN <<table[entity_name], ";">>
        ELSE whole

\* The callback as it would be if unknown references were dropped.
replace_entity_drops_unknown(whole, table) ==
    LET entity_name == SubSeq(whole, 2, Len(whole) - 1)
    IN  IF entity_name \in DOMAIN table
        THEN <<table[entity_name]>>
        ELSE <<>>

\* Lines 62-69; whole is match.group(0) and entity_name is match.group(1).
replace_entity(whole, table) ==
    LET entity_name == SubSeq(whole, 2, Len(whole) - 1)
    IN  IF entity_name \in DOMAIN table
        THEN <<table[entity_name]>>
        ELSE whole

\* re.sub: one left-to-right scan of the input; a replacement is emitted
\* and the scan resumes after the match.
RECURSIVE EntitySubFrom(_, _, _)
EntitySubFrom(text, table, p) ==
    IF p > Len(text) THEN <<>>
    ELSE LET n == EntityMatchLen(text, p) IN
         IF n > 0
         THEN replace_entity(SubSeq(text, p, p + n - 1), table)
              \o EntitySubFrom(text, table, p + n)
         ELSE <<text[p]>> \o EntitySubFrom(text, table, p + 1)

\* replace_entities as it would be if the result were scanned once more.
replace_entities_rescans(text, table) ==
    EntitySubFrom(EntitySubFrom(text, table, 1), table, 1)

\* Lines 51-73.
replace_entities(text, table) == EntitySubFrom(text, table, 1)

(***************************************************************************)
(* Inputs of the entitize stage.  load_entities stores parts[1] of a line  *)
(* as the name whatever its characters, so a table may hold a key that is  *)
(* no identifier; chr() makes every value one character.                   *)
(***************************************************************************)
EntityChars == {"&", "a", "1", ";"}

TableEmpty == <<>>

TableAccent == (<<"a">> :> "E")

\* Values that can complete a new reference with neighbouring text.
TableAmp == (<<"a">> :> "&") @@ (<<"a", "1">> :> ";")

\* A key that is no identifier, and a letter as value.
TableOdd == (<<"1", "a">> :> "x") @@ (<<"a", "a">> :> "a")

EntityTables == {TableEmpty, TableAccent, TableAmp, TableOdd}

InitEntitize ==
    /\ content \in SeqsUpTo(EntityChars, MaxEntLen)
    /\ entities \in EntityTables
    /\ processed_content = <<>>
    /\ lines = <<>>
    /\ i = 1
    /\ pc = "read"
    /\ IdleCustomize /\ IdleDemote /\ IdleMerge
    /\ IdleStyles /\ IdlePipeline

\* entitize.process_file, lines 88-99: the content read is replaced and written.
EntitizeProcessFile ==
    /\ pc = "read"
    /\ processed_content' = replace_entities(content, entities)
    /\ pc' = "written"
    /\ UNCHANGED <<content, i, lines, entities>>
    /\ UNCHANGED <<customizeVars, demoteVars, mergeVars, stylesVars, pipelineVars>>

NextEntitize == EntitizeProcessFile

SpecEntitize == InitEntitize /\ [][NextEntitize]_vars

(***************************************************************************)
(* Properties of entitize.replace_entities, stated on positions of the     *)
(* input text.                                                             *)
(***************************************************************************)
\* An entity name in the sense of the data model: [A-Za-z][A-Za-z0-9_]*.
IsIdentifier(n) ==
    /\ n # <<>>
    /\ n[1] \in Letters
    /\ \A k \in 1..Len(n) : n[k] \in NameChars

Reference(n) == <<"&">> \o n \o <<";">>

\* The text "&n;" occurs in text at index p.
OccursAt(text, p, n) ==
    /\ p >= 1 /\ p + Len(n) + 1 <= Len(text)
    /\ SubSeq(text, p, p + Len(n) + 1) = Reference(n)

\* The entity names of the table.
KnownNames(table) == {n \in DOMAIN table : IsIdentifier(n)}

KnownAt(text, table, p) == \E n \in KnownNames(table) : OccursAt(text, p, n)

NameAt(text, table, p) == CHOOSE n \in KnownNames(table) : OccursAt(text, p, n)

\* Index p lies in a reference to a name of the table.
InsideKnown(text, table, p) ==
    \E q \in 1..p : KnownAt(text, table, q)
                    /\ p <= q + Len(NameAt(text, table, q)) + 1

\* Characters the references starting before index p lose: each turns its
\* Len(n) + 2 characters into one.
RECURSIVE ShrinkBefore(_, _, _)
ShrinkBefore(text, table, p) ==
    IF p <= 1 THEN 0
    ELSE ShrinkBefore(text, table, p - 1)
         + (IF KnownAt(text, table, p - 1)
            THEN Len(NameAt(text, table, p - 1)) + 1
            ELSE 0)

\* Where the character at input index p lands in the output.
OutPos(text, table, p) == p - ShrinkBefore(text, table, p)

\* What input index p (no inner index of a known reference) turns into.
Image(text, table, p) ==
    IF KnownAt(text, table, p) THEN table[NameAt(text, table, p)] ELSE text[p]

\* Identifiers of at most two characters.
ShortIdentifiers == {n \in SeqsUpTo(NameChars, 2) : IsIdentifier(n)}

\* C4: every occurrence of "&n;" with n an entity name of the table becomes
\* exactly the table's character for n: that one character stands where the
\* reference stood and is followed at once by what followed the reference
\* (or ends the output), so no "&" or ";" of the reference remains.
C4_KnownReplaced ==
    pc = "written" =>
        \A p \in 1..Len(content) : \A n \in KnownNames(entities) :
            OccursAt(content, p, n) =>
                LET o    == OutPos(content, entities, p)
                    next == p + Len(n) + 2
                IN  /\ o <= Len(processed_content)
                    /\ processed_content[o] = entities[n]
                    /\ IF next > Len(content)
                       THEN Len(processed_content) = o
                       ELSE /\ o + 1 <= Len(processed_content)
                            /\ processed_content[o + 1]
                                  = Image(content, entities, next)

\* A written document that referred to a known name between other text.
C4_Witness ==
    /\ pc = "written"
    /\ \E p \in 2..Len(content) : \E n \in KnownNames(entities) :
          /\ OccursAt(content, p, n)
          /\ p + Len(n) + 2 <= Len(content)

\* C5: every character that is not part of a reference to a name of the
\* table, the references "&n;" to unknown identifiers included, is in the
\* output unchanged, at its position shifted by what earlier replacements
\* removed.
C5_UnknownPreserved ==
    pc = "written" =>
        \A p \in 1..Len(content) :
            ~InsideKnown(content, entities, p) =>
                LET o == OutPos(content, entities, p)
                IN  o <= Len(processed_content)
                    /\ processed_content[o] = content[p]

\* A written document with a reference to an unknown identifier after a
\* replaced one.
C5_Witness ==
    /\ pc = "written"
    /\ \E p \in 2..Len(content) : \E n \in ShortIdentifiers :
          /\ n \notin DOMAIN entities
          /\ OccursAt(content, p, n)
          /\ \E q \in 1..(p - 1) : KnownAt(content, entities, q)

\* The output of one pass: each reference of the input to a name of the
\* table gives the table's character, every other character gives itself.
ExpectedSinglePass(text, table) ==
    Join([p \in 1..Len(text) |->
            IF KnownAt(text, table, p) THEN <<table[NameAt(text, table, p)]>>
            ELSE IF InsideKnown(text, table, p) THEN <<>>
            ELSE <<text[p]>>])

\* C6: the output is decided by the references of the input alone, in one
\* pass: a reference that a replacement forms in the output is left as it is.
C6_SinglePass ==
    pc = "written" =>
        processed_content = ExpectedSinglePass(content, entities)

\* A written document that holds a reference to a name of the table, formed
\* by a replaced character and its neighbours.
C6_Witness ==
    /\ pc = "written"
    /\ \E q \in 1..Len(processed_content) :
          KnownAt(processed_content, entities, q)

(***************************************************************************)
(* merge.demote_headers                                                    *)
(***************************************************************************)
\* str.split('\n'): the pieces between the "\n"; always at least one piece.
RECURSIVE SplitNL(_)
SplitNL(s) ==
    LET k == FirstNL(s, 1) IN
    IF k = 0 THEN <<s>>
    ELSE <<SubSeq(s, 1, k - 1)>> \o SplitNL(SubSeq(s, k + 1, Len(s)))

\* sep.join(parts)
RECURSIVE JoinWith(_, _)
JoinWith(sep, parts) ==
    IF parts = <<>> THEN <<>>
    ELSE IF Len(parts) = 1 THEN parts[1]
    ELSE parts[1] \o sep \o JoinWith(sep, Tail(parts))

\* Line 35: line.strip().startswith('#')
IsHashHeader(line) == StartsWith(Strip(line), <<"#">>)

\* Lines 39-41 and 46: there is a next line, it is not blank, and it holds
\* nothing but the character ch once trimmed.
IsUnderlined(ls, k, ch) ==
    /\ k + 1 <= Len(ls)
    /\ Strip(ls[k + 1]) # <<>>
    /\ \A j \in 1..Len(Strip(ls[k + 1])) : Strip(ls[k + 1])[j] = ch

\* The branch of the loop body that line k takes.
DemoteBranch(ls, k) ==
    IF IsHashHeader(ls[k]) THEN "hash"
    ELSE IF IsUnderlined(ls, k, "=") THEN "setext_h1"
    ELSE IF IsUnderlined(ls, k, "-") THEN "setext_h2"
    ELSE "plain"

\* What the branch appends to result_lines.
DemoteEmitted(ls, k) ==
    CASE DemoteBranch(ls, k) = "hash"      -> << <<"#">> \o ls[k] >>
      [] DemoteBranch(ls, k) = "setext_h1" -> << <<"#", "#", " ">> \o ls[k], <<>> >>
      [] DemoteBranch(ls, k) = "setext_h2" -> << <<"#", "#", "#", " ">> \o ls[k], <<>> >>
      [] OTHER                             -> << ls[k] >>

\* DemoteConsumed as it would be if the underline of a setext pair were not
\* skipped.
DemoteConsumedNoSkip(ls, k) == 1

\* How far the branch moves i: a setext pair skips its underline.
DemoteConsumed(ls, k) ==
    IF DemoteBranch(ls, k) \in {"setext_h1", "setext_h2"} THEN 2 ELSE 1

\* Lines 30-56: the loop from index k on.
RECURSIVE DemoteLoop(_, _, _)
DemoteLoop(ls, k, res) ==
    IF k > Len(ls) THEN res
    ELSE DemoteLoop(ls, k + DemoteConsumed(ls, k), res \o DemoteEmitted(ls, k))

\* Lines 22-58.
demote_headers(text) == JoinWith(<<NL>>, DemoteLoop(SplitNL(text), 1, <<>>))

\* Lines a fragment is assembled from: a "#" heading, text, a blank line, an
\* "=" underline, a "-" underline or rule, an indented "#" heading, and a
\* line mixing "=" and "-".
FragmentLines == {
    <<"#", " ", "a">>,
    <<"a">>,
    <<>>,
    <<"=", "=">>,
    <<"-", "-", "-">>,
    <<" ", "#", " ", "a">>,
    <<"=", "-">> }

InitDemote ==
    /\ \E ls \in SeqsUpTo(FragmentLines, MaxFragLines) :
          fragment = JoinWith(<<NL>>, ls)
    /\ content = fragment
    /\ lines = SplitNL(content)
    /\ i = 1
    /\ result_lines = <<>>
    /\ returned = <<>>
    /\ processed_content = <<>>
    /\ pc = "loop"
    /\ IdleCustomize /\ IdleEntitize /\ IdleMerge
    /\ IdleStyles /\ IdlePipeline

\* One pass of the loop body, lines 31-56.
DemoteLineStep ==
    /\ pc = "loop" /\ i <= Len(lines)
    /\ result_lines' = result_lines \o DemoteEmitted(lines, i)
    /\ i' = i + DemoteConsumed(lines, i)
    /\ UNCHANGED <<pc, content, lines, processed_content, fragment, returned>>
    /\ UNCHANGED <<customizeVars, entitizeVars, mergeVars, stylesVars, pipelineVars>>

\* Lines 35-37.
DemoteHash ==
    /\ pc = "loop" /\ i <= Len(lines)
    /\ DemoteBranch(lines, i) = "hash"
    /\ DemoteLineStep

\* Lines 41-45.
DemoteSetextEquals ==
    /\ pc = "loop" /\ i <= Len(lines)
    /\ DemoteBranch(lines, i) = "setext_h1"
    /\ DemoteLineStep

\* Lines 46-50.
DemoteSetextDashes ==
    /\ pc = "loop" /\ i <= Len(lines)
    /\ DemoteBranch(lines, i) = "setext_h2"
    /\ DemoteLineStep

\* Lines 51-54.
DemotePlain ==
    /\ pc = "loop" /\ i <= Len(lines)
    /\ DemoteBranch(lines, i) = "plain"
    /\ DemoteLineStep

\* Line 58.
DemoteReturn ==
    /\ pc = "loop" /\ i > Len(lines)
    /\ returned' = Append(returned, JoinWith(<<NL>>, result_lines))
    /\ pc' = "returned"
    /\ UNCHANGED <<content, i, lines, processed_content, fragment, result_lines>>
    /\ UNCHANGED <<customizeVars, entitizeVars, mergeVars, stylesVars, pipelineVars>>

\* demote_headers called again on what it returned (lines 27-30).
DemoteAgain ==
    /\ pc = "returned" /\ Len(returned) < MaxApplications
    /\ content' = returned[Len(returned)]
    /\ lines' = SplitNL(returned[Len(returned)])
    /\ i' = 1
    /\ result_lines' = <<>>
    /\ pc' = "loop"
    /\ UNCHANGED <<processed_content, fragment, returned>>
    /\ UNCHANGED <<customizeVars, entitizeVars, mergeVars, stylesVars, pipelineVars>>

NextDemote ==
    \/ DemoteHash \/ DemoteSetextEquals \/ DemoteSetextDashes \/ DemotePlain
    \/ DemoteReturn \/ DemoteAgain

SpecDemote == InitDemote /\ [][NextDemote]_vars

(***************************************************************************)
(* Properties of merge.demote_headers, stated on the heading structure of  *)
(* a fragment.                                                             *)
(***************************************************************************)
IsBlank(line) == Strip(line) = <<>>

\* The line, trimmed, is not empty and holds nothing but the character ch.
SolelyOf(line, ch) ==
    /\ Strip(line) # <<>>
    /\ \A j \in 1..Len(Strip(line)) : Strip(line)[j] = ch

\* Lines k and k+1 are a setext heading: a non-blank line and its underline.
SetextPair(ls, k, ch) ==
    /\ k + 1 <= Len(ls)
    /\ ~IsBlank(ls[k])
    /\ SolelyOf(ls[k + 1], ch)

\* Number of "#" characters the text starts with.
RECURSIVE LeadingHashes(_)
LeadingHashes(s) ==
    IF s # <<>> /\ Head(s) = "#" THEN 1 + LeadingHashes(Tail(s)) ELSE 0

\* Level of a "#" heading line, 0 for any other line.
HashLevel(line) == LeadingHashes(Strip(line))

\* The heading level of every line from index k on, read left to right: a
\* "#" heading has its number of "#", the first line of a setext pair has
\* level 1 ("=") or 2 ("-"), its underline and every other line have 0.
RECURSIVE HeadingLevels(_, _)
HeadingLevels(ls, k) ==
    IF k > Len(ls) THEN <<>>
    ELSE IF HashLevel(ls[k]) > 0
         THEN <<HashLevel(ls[k])>> \o HeadingLevels(ls, k + 1)
    ELSE IF SetextPair(ls, k, "=") THEN <<1, 0>> \o HeadingLevels(ls, k + 2)
    ELSE IF SetextPair(ls, k, "-") THEN <<2, 0>> \o HeadingLevels(ls, k + 2)
    ELSE <<0>> \o HeadingLevels(ls, k + 1)

\* The lines the step just appended to result_lines.
JustEmitted == SubSeq(result_lines', Len(result_lines) + 1, Len(result_lines'))

\* C7 as stated: after n = 1 or 2 applications every heading of the original
\* fragment is exactly n levels deeper, on the same line, and no line that
\* was no heading has become one; after one application every line that is
\* neither a heading nor the underline of one is unchanged.
C7_Original ==
    pc = "returned" =>
        LET orig   == SplitNL(fragment)
            n      == Len(returned)
            out    == SplitNL(returned[n])
            before == HeadingLevels(orig, 1)
            after  == HeadingLevels(out, 1)
        IN  /\ Len(out) = Len(orig)
            /\ \A k \in 1..Len(orig) :
                  after[k] = IF before[k] > 0 THEN before[k] + n ELSE 0
            /\ n = 1 =>
                  \A k \in 1..Len(orig) :
                     (before[k] = 0 /\ (k = 1 \/ before[k - 1] = 0
                                        \/ HashLevel(orig[k - 1]) > 0))
                        => out[k] = orig[k]

\* C8 as stated: a step rewrites a pair of lines only when the first is
\* non-blank and the second is solely "=" (giving "## " + line and an empty
\* line) or solely "-" (giving "### " + line and an empty line); a line that
\* is neither a "#" heading nor the first line of such a pair, a blank line
\* followed by a "---" rule included, is appended unchanged.
C8_Original ==
    [][ (pc = "loop" /\ i <= Len(lines)) =>
          LET line == lines[i] IN
          /\ (i' = i + 2)
                => (SetextPair(lines, i, "=") \/ SetextPair(lines, i, "-"))
          /\ (~IsHashHeader(line) /\ SetextPair(lines, i, "="))
                => /\ JustEmitted = << <<"#", "#", " ">> \o line, <<>> >>
                   /\ i' = i + 2
          /\ (~IsHashHeader(line) /\ ~SetextPair(lines, i, "=")
                                  /\ SetextPair(lines, i, "-"))
                => /\ JustEmitted = << <<"#", "#", "#", " ">> \o line, <<>> >>
                   /\ i' = i + 2
          /\ (~IsHashHeader(line) /\ ~SetextPair(lines, i, "=")
                                  /\ ~SetextPair(lines, i, "-"))
                => /\ JustEmitted = <<line>>
                   /\ i' = i + 1
      ]_vars

(***************************************************************************)
(* merge.merge_volume and merge.main                                       *)
(***************************************************************************)
\* Code points of the characters of file names.
CodePoint ==
    ("." :> 46) @@ ("a" :> 97) @@ ("b" :> 98) @@ ("c" :> 99) @@ ("d" :> 100)
    @@ ("m" :> 109) @@ ("p" :> 112) @@ ("t" :> 116) @@ ("x" :> 120)

\* a < b for two names, as str and Path compare: by code point, a proper
\* prefix first.
RECURSIVE LexLess(_, _)
LexLess(a, b) ==
    IF b = <<>> THEN FALSE
    ELSE IF a = <<>> THEN TRUE
    ELSE IF Head(a) # Head(b) THEN CodePoint[Head(a)] < CodePoint[Head(b)]
    ELSE LexLess(Tail(a), Tail(b))

\* sorted(S) for a set of names.
RECURSIVE Sorted(_)
Sorted(S) ==
    IF S = {} THEN <<>>
    ELSE LET least == CHOOSE x \in S : \A y \in S \ {x} : LexLess(x, y)
         IN  <<least>> \o Sorted(S \ {least})

\* dict.get(key, default)
Get(dict, key, default) == IF key \in DOMAIN dict THEN dict[key] ELSE default

DotMd == <<".", "m", "d">>

DotTmpMd == <<".", "t", "m", "p", ".", "m", "d">>

\* Line 75 as it would be without the exclusion of temporary files.
md_files_keeps_tmp(dir) == Sorted({f \in DOMAIN dir : EndsWith(f, DotMd)})

\* Line 75: the '*.md' files of the directory that are no '.tmp.md' file,
\* sorted.
md_files(dir) ==
    Sorted({f \in DOMAIN dir : EndsWith(f, DotMd) /\ ~EndsWith(f, DotTmpMd)})

\* Lines 83-95: the title line, then the demoted content of every file,
\* joined with "\n\n".
MergedContent(title, dir, files) ==
    JoinWith(<<NL, NL>>,
             << <<"#", " ">> \o title \o <<NL>> >>
             \o [j \in 1..Len(files) |-> demote_headers(dir[files[j]])])

\* Lines 61-104: the output directory after merge_volume; in_fs maps an
\* input subdirectory to [exists, files].
merge_volume(volume_name, volume_config, in_fs, out_fs) ==
    LET title      == Get(volume_config, "title", volume_name)
        input_name == Get(volume_config, "input_name", volume_name)
        dir        == in_fs[input_name].files
    IN  IF ~in_fs[input_name].exists THEN out_fs
        ELSE IF md_files(dir) = <<>> THEN out_fs
        ELSE (volume_name :> MergedContent(title, dir, md_files(dir)))
             @@ out_fs

(***************************************************************************)
(* Inputs of the merge stage.                                              *)
(***************************************************************************)
\* The k-th key of the 'volumes' mapping.
VolumeName(k) == <<"v", ToString(k)>>

\* Its value: odd volumes give a title and an input_name, even ones rely on
\* the defaults of lines 66-67.
VolumeConfig(k) ==
    IF k % 2 = 1
    THEN [title |-> <<"T", ToString(k)>>, input_name |-> <<"d", ToString(k)>>]
    ELSE <<>>

InputName(k) == Get(VolumeConfig(k), "input_name", VolumeName(k))

VolumeNames == {VolumeName(k) : k \in 1..NumVolumes}

FileA == <<"a", ".", "m", "d">>

FileB == <<"b", ".", "m", "d">>

FileTmp == <<"a", ".", "t", "m", "p", ".", "m", "d">>

FileTxt == <<"c", ".", "t", "x", "t">>

FileNames == {FileA, FileB, FileTmp, FileTxt}

\* What the files hold: headings of both syntaxes, or plain and empty text.
LayoutHeadings ==
    (FileA :> <<"#", " ", "a">>) @@ (FileB :> <<"a", NL, "=", "=">>)
    @@ (FileTmp :> <<"t">>) @@ (FileTxt :> <<"c">>)

LayoutPlain ==
    (FileA :> <<"a", NL>>) @@ (FileB :> <<>>)
    @@ (FileTmp :> <<"#", "t">>) @@ (FileTxt :> <<"c">>)

ContentLayouts == {LayoutHeadings, LayoutPlain}

\* A file an earlier run left in the output directory.
Stale == <<"o", "l", "d">>

UnknownVolume == <<"v", "x">>

\* config_exists: the configuration file is there; volume: the -vol option,
\* empty when it is not given (line 149 tests its truth value).
MergeArgs ==
    {[config_exists |-> TRUE, volume |-> v] :
        v \in {<<>>, VolumeName(1), UnknownVolume}}
    \cup {[config_exists |-> FALSE, volume |-> <<>>]}

\* A subdirectory that does not exist.
NoDirectory == [exists |-> FALSE, files |-> <<>>]

InitMerge ==
    /\ \E layout \in ContentLayouts :
          input_fs \in [{InputName(k) : k \in 1..NumVolumes} ->
                          {NoDirectory}
                          \cup {[exists |-> TRUE, files |-> [f \in S |-> layout[f]]] :
                                  S \in SUBSET FileNames}]
    /\ output_fs \in {<<>>, (VolumeName(1) :> Stale)}
    /\ args \in MergeArgs
    /\ rc = -1
    /\ i = 1
    /\ pc = "main"
    /\ content = <<>> /\ lines = <<>> /\ processed_content = <<>>
    /\ IdleCustomize /\ IdleEntitize /\ IdleDemote
    /\ IdleStyles /\ IdlePipeline

(***************************************************************************)
(* merge.main, lines 128-164.  No file of the model fails to open, so the  *)
(* except branch is never taken.                                           *)
(***************************************************************************)
\* Lines 131-133: the configuration file is not there.
MergeConfigMissing ==
    /\ pc = "main"
    /\ ~args.config_exists
    /\ rc' = 1
    /\ pc' = "exit"
    /\ UNCHANGED <<content, i, lines, processed_content, input_fs, output_fs, args>>
    /\ UNCHANGED <<customizeVars, entitizeVars, demoteVars, stylesVars, pipelineVars>>

\* Lines 149-153: -vol names no volume of the configuration.
MergeVolumeUnknown ==
    /\ pc = "main"
    /\ args.config_exists
    /\ args.volume # <<>> /\ args.volume \notin VolumeNames
    /\ rc' = 1
    /\ pc' = "exit"
    /\ UNCHANGED <<content, i, lines, processed_content, input_fs, output_fs, args>>
    /\ UNCHANGED <<customizeVars, entitizeVars, demoteVars, stylesVars, pipelineVars>>

\* Lines 149-154 and 160: -vol names a volume; it is merged and main returns.
MergeOne ==
    /\ pc = "main"
    /\ args.config_exists
    /\ args.volume # <<>> /\ args.volume \in VolumeNames
    /\ \E k \in 1..NumVolumes :
          /\ VolumeName(k) = args.volume
          /\ output_fs' = merge_volume(VolumeName(k), VolumeConfig(k),
                                       input_fs, output_fs)
    /\ rc' = 0
    /\ pc' = "exit"
    /\ UNCHANGED <<content, i, lines, processed_content, input_fs, args>>
    /\ UNCHANGED <<customizeVars, entitizeVars, demoteVars, stylesVars, pipelineVars>>

\* Lines 155-157: no -vol; the loop over all volumes starts.
MergeAll ==
    /\ pc = "main"
    /\ args.config_exists
    /\ args.volume = <<>>
    /\ i' = 1
    /\ pc' = "each"
    /\ UNCHANGED <<content, lines, processed_content, input_fs, output_fs, args, rc>>
    /\ UNCHANGED <<customizeVars, entitizeVars, demoteVars, stylesVars, pipelineVars>>

\* MergeEach as it would be if a skipped volume ended the run with an error.
MergeEachAbortsOnSkip ==
    /\ pc = "each" /\ i <= NumVolumes
    /\ LET after == merge_volume(VolumeName(i), VolumeConfig(i), input_fs, output_fs)
       IN  IF after = output_fs
           THEN rc' = 1 /\ pc' = "exit" /\ UNCHANGED <<i, output_fs>>
           ELSE output_fs' = after /\ i' = i + 1 /\ UNCHANGED <<pc, rc>>
    /\ UNCHANGED <<content, lines, processed_content, input_fs, args>>
    /\ UNCHANGED <<customizeVars, entitizeVars, demoteVars, stylesVars, pipelineVars>>

\* Lines 157-158: one volume of the loop, in the order of the mapping.
MergeEach ==
    /\ pc = "each" /\ i <= NumVolumes
    /\ output_fs' = merge_volume(VolumeName(i), VolumeConfig(i), input_fs, output_fs)
    /\ i' = i + 1
    /\ UNCHANGED <<pc, content, lines, processed_content, input_fs, args, rc>>
    /\ UNCHANGED <<customizeVars, entitizeVars, demoteVars, stylesVars, pipelineVars>>

\* Line 160: the loop is over.
MergeReturn ==
    /\ pc = "each" /\ i > NumVolumes
    /\ rc' = 0
    /\ pc' = "exit"
    /\ UNCHANGED <<content, i, lines, processed_content, input_fs, output_fs, args>>
    /\ UNCHANGED <<customizeVars, entitizeVars, demoteVars, stylesVars, pipelineVars>>

NextMerge ==
    \/ MergeConfigMissing \/ MergeVolumeUnknown \/ MergeOne
    \/ MergeAll \/ MergeEach \/ MergeReturn

SpecMerge == InitMerge /\ [][NextMerge]_vars

(***************************************************************************)
(* Properties of merge.merge_volume and merge.main.                        *)
(***************************************************************************)
\* The files of a directory that count: '.md' files that are no '.tmp.md'.
EligibleFiles(dir) ==
    {f \in DOMAIN dir : EndsWith(f, DotMd) /\ ~EndsWith(f, DotTmpMd)}

\* The names of S, each once, in lexicographic order.
InFilenameOrder(S) ==
    CHOOSE s \in [1..Cardinality(S) -> S] :
        \A a, b \in 1..Cardinality(S) : a < b => LexLess(s[a], s[b])

VolumeTitle(k) == Get(VolumeConfig(k), "title", VolumeName(k))

VolumeDir(k) == input_fs[InputName(k)]

HasEligible(k) ==
    VolumeDir(k).exists /\ EligibleFiles(VolumeDir(k).files) # {}

\* merge_volume has run for volume k.
Processed(k) ==
    \/ pc = "each" /\ k < i
    \/ pc = "exit" /\ rc = 0 /\ args.volume \in {<<>>, VolumeName(k)}

TitleLine(k) == <<"#", " ">> \o VolumeTitle(k)

\* The merged document of volume k as C9 describes it.
ExpectedMerged(k) ==
    LET files == VolumeDir(k).files
        order == InFilenameOrder(EligibleFiles(files))
    IN  TitleLine(k) \o <<NL>>
        \o Join([j \in 1..Len(order) |->
                    <<NL, NL>> \o demote_headers(files[order[j]])])

\* C9: once merge_volume has run for a volume with an eligible file, the
\* output directory holds <volume_name>.md; its first line is "# <title>"
\* and the rest is the demoted content of every eligible file, once each, in
\* lexicographic filename order, each preceded by a blank-line separator;
\* '.tmp.md' files and other files contribute nothing.
C9_MergedDocument ==
    \A k \in 1..NumVolumes :
        (Processed(k) /\ HasEligible(k)) =>
            /\ VolumeName(k) \in DOMAIN output_fs
            /\ SplitNL(output_fs[VolumeName(k)])[1] = TitleLine(k)
            /\ output_fs[VolumeName(k)] = ExpectedMerged(k)

\* A finished run that merged a volume with two eligible files beside a
\* '.tmp.md' file and a file of another extension.
C9_Witness ==
    /\ pc = "exit"
    /\ \E k \in 1..NumVolumes :
          /\ Processed(k)
          /\ VolumeDir(k).exists
          /\ DOMAIN VolumeDir(k).files = FileNames
          /\ VolumeDir(k).files[FileB] # <<>>

\* C10: a run over all volumes returns 0; a volume whose input subdirectory
\* does not exist or holds no eligible file has no merged file written (the
\* output directory has no file for it, or still the one an earlier run
\* left), and every other volume has its merged file, written in this run.
C10_SkippedVolumes ==
    (pc = "exit" /\ args.config_exists /\ args.volume = <<>>) =>
        /\ rc = 0
        /\ \A k \in 1..NumVolumes :
              IF HasEligible(k)
              THEN /\ VolumeName(k) \in DOMAIN output_fs
                   /\ output_fs[VolumeName(k)] # Stale
                   /\ StartsWith(output_fs[VolumeName(k)], TitleLine(k) \o <<NL>>)
              ELSE \/ VolumeName(k) \notin DOMAIN output_fs
                   \/ output_fs[VolumeName(k)] = Stale

\* A finished run over all volumes in which a volume without input
\* subdirectory came before a volume that was merged.
C10_Witness ==
    /\ pc = "exit" /\ args.config_exists /\ args.volume = <<>>
    /\ \E j, k \in 1..NumVolumes :
          /\ j < k
          /\ ~VolumeDir(j).exists
          /\ HasEligible(k)

(***************************************************************************)
(* The stages as functions of the file system.  The file system maps a     *)
(* directory to its files and a file name to the text it holds; a path is  *)
(* a pair <<directory, name>>.  The merger's output directory holds        *)
(* '<key>.md' under its key, as output_fs does.                            *)
(***************************************************************************)
\* customize.process_file, lines 86-119: the text written for the text read.
RECURSIVE CustomizeLoop(_, _, _, _, _, _)
CustomizeLoop(ls, k, out, buf, inside, cfg) ==
    LET flushed == IF buf # <<>>
                   THEN Append(out, apply_styles(Join(buf), cfg))
                   ELSE out
    IN  IF k > Len(ls) THEN Join(flushed)
        ELSE IF ~inside /\ StartsWith(Strip(ls[k]), FENCE)
             THEN CustomizeLoop(ls, k + 1, Append(flushed, ls[k]), <<>>, TRUE, cfg)
        ELSE IF inside
             THEN CustomizeLoop(ls, k + 1, Append(out, ls[k]), buf,
                                Strip(ls[k]) # FENCE, cfg)
        ELSE CustomizeLoop(ls, k + 1, out, Append(buf, ls[k]), FALSE, cfg)

customize_process_file(text, cfg) ==
    CustomizeLoop(SplitLinesKeep(text), 1, <<>>, <<>>, FALSE, cfg)

\* What a stage's process_file writes for the text it read (entitize.py 92,
\* customize.py 86-119); cfg is the entity table or the style rule set.
process_file(stage, text, cfg) ==
    IF stage = "entitize" THEN replace_entities(text, cfg)
    ELSE customize_process_file(text, cfg)

\* The loop of entitize.main (139-148) and of customize.main (166-175): the
\* paths of files are taken in order; one that exists is read, transformed
\* and written under its own name in the directory output, one that does
\* not exist is skipped.
RECURSIVE process_files(_, _, _, _, _)
process_files(fsys, files, output, stage, cfg) ==
    IF files = <<>> THEN fsys
    ELSE LET dir  == Head(files)[1]
             name == Head(files)[2]
         IN  IF name \notin DOMAIN fsys[dir]
             THEN process_files(fsys, Tail(files), output, stage, cfg)
             ELSE process_files(
                     [fsys EXCEPT ![output] =
                         (name :> process_file(stage, fsys[dir][name], cfg)) @@ @],
                     Tail(files), output, stage, cfg)

\* entitize.main as it would be without the test of lines 127-129.
entitize_main_unchecked(fsys, entities_exists, table, files, output) ==
    [rc |-> 0, fs |-> process_files(fsys, files, output, "entitize", table)]

\* entitize.main, lines 124-155: 1 when the definitions file is not there.
entitize_main(fsys, entities_exists, table, files, output) ==
    IF ~entities_exists
    THEN [rc |-> 1, fs |-> fsys]
    ELSE [rc |-> 0, fs |-> process_files(fsys, files, output, "entitize", table)]

\* customize.main, lines 151-182: 1 when the styles file is not there.
customize_main(fsys, styles_exists, cfg, files, output) ==
    IF ~styles_exists
    THEN [rc |-> 1, fs |-> fsys]
    ELSE [rc |-> 0, fs |-> process_files(fsys, files, output, "customize", cfg)]

\* The elements of a set in some order, as a directory listing gives them.
Listing(S) ==
    CHOOSE q \in [1..Cardinality(S) -> S] :
        \A a, b \in 1..Cardinality(S) : a # b => q[a] # q[b]

\* Position of a volume in the 'volumes' mapping.
VolumeIndex(name) == CHOOSE k \in 1..NumVolumes : VolumeName(k) = name

\* merge.main, lines 155-157: the loop over all volumes from the k-th on.
RECURSIVE MergeVolumes(_, _, _)
MergeVolumes(k, in_fs, out_fs) ==
    IF k > NumVolumes THEN out_fs
    ELSE MergeVolumes(k + 1, in_fs,
                      merge_volume(VolumeName(k), VolumeConfig(k), in_fs, out_fs))

\* merge.main, lines 128-160, reading directory 'src' and writing output.
merge_main(fsys, config_exists, volume, output) ==
    IF ~config_exists THEN [rc |-> 1, fs |-> fsys]
    ELSE IF volume # <<>>
         THEN IF volume \notin VolumeNames THEN [rc |-> 1, fs |-> fsys]
              ELSE [rc |-> 0,
                    fs |-> [fsys EXCEPT ![output] =
                               merge_volume(volume, VolumeConfig(VolumeIndex(volume)),
                                            fsys.src, fsys[output])]]
    ELSE [rc |-> 0,
          fs |-> [fsys EXCEPT ![output] = MergeVolumes(1, fsys.src, fsys[output])]]

(***************************************************************************)
(* build.py: run_pandoc_odt, run_libreoffice_pdf, build_volume.  The       *)
(* converter and the rasterizer are external programs: env.pandoc is the   *)
(* outcome of the pandoc call, env.libreoffice the outcome of each of the  *)
(* candidate commands of lines 81-86, in list order.                       *)
(***************************************************************************)
DotOdt == <<".", "o", "d", "t">>

DotPdf == <<".", "p", "d", "f">>

\* What a produced document holds: its format and the text it came from.
Odt(text) == <<"odt", text>>

Pdf(odt) == <<"pdf", odt[2]>>

\* Lines 53-65: True and the ODT file when pandoc ran and exited with 0.
run_pandoc_odt(fsys, outcome, input, name, output, odt_file) ==
    IF outcome = "ok"
    THEN [ok |-> TRUE,
          fs |-> [fsys EXCEPT ![output] = (odt_file :> Odt(fsys[input][name])) @@ @]]
    ELSE [ok |-> FALSE, fs |-> fsys]

\* Lines 88-126: the candidates from the k-th on; tried is the number of
\* candidate commands that were run or looked for.
RECURSIVE run_libreoffice_pdf(_, _, _, _, _, _)
run_libreoffice_pdf(fsys, outcomes, k, output, odt_file, pdf_file) ==
    LET made == [fsys EXCEPT ![output] = (pdf_file :> Pdf(fsys[output][odt_file])) @@ @]
    IN  IF k > Len(outcomes) THEN [ok |-> FALSE, fs |-> fsys, tried |-> k - 1]
        ELSE IF outcomes[k] = "ok" THEN [ok |-> TRUE, fs |-> made, tried |-> k]
        ELSE IF outcomes[k] = "error_pdf" THEN [ok |-> TRUE, fs |-> made, tried |-> k]
        ELSE IF outcomes[k] = "error" /\ pdf_file \in DOMAIN fsys[output]
             THEN [ok |-> TRUE, fs |-> fsys, tried |-> k]
        ELSE run_libreoffice_pdf(fsys, outcomes, k + 1, output, odt_file, pdf_file)

\* build_volume as it would be if it returned what PDF generation returned.
build_volume_requires_pdf(fsys, e, volume_name, volume_config, input, output) ==
    LET output_name == Get(volume_config, "output_name", volume_name)
        odt_file    == output_name \o DotOdt
        pdf_file    == output_name \o DotPdf
        odt         == run_pandoc_odt(fsys, e.pandoc, input, volume_name,
                                      output, odt_file)
        pdf         == run_libreoffice_pdf(odt.fs, e.libreoffice, 1, output,
                                           odt_file, pdf_file)
    IN  IF ~e.template THEN [ok |-> FALSE, fs |-> fsys]
        ELSE IF volume_name \notin DOMAIN fsys[input] THEN [ok |-> FALSE, fs |-> fsys]
        ELSE IF ~odt.ok THEN [ok |-> FALSE, fs |-> fsys]
        ELSE [ok |-> pdf.ok, fs |-> pdf.fs]

\* build_volume as it would be if it stopped after the ODT file.
build_volume_odt_only(fsys, e, volume_name, volume_config, input, output) ==
    LET output_name == Get(volume_config, "output_name", volume_name)
        odt_file    == output_name \o DotOdt
        odt         == run_pandoc_odt(fsys, e.pandoc, input, volume_name,
                                      output, odt_file)
    IN  IF ~e.template THEN [ok |-> FALSE, fs |-> fsys]
        ELSE IF volume_name \notin DOMAIN fsys[input] THEN [ok |-> FALSE, fs |-> fsys]
        ELSE IF ~odt.ok THEN [ok |-> FALSE, fs |-> fsys]
        ELSE [ok |-> TRUE, fs |-> odt.fs]

\* Lines 146-204.
build_volume(fsys, e, volume_name, volume_config, input, output) ==
    LET output_name == Get(volume_config, "output_name", volume_name)
        odt_file    == output_name \o DotOdt
        pdf_file    == output_name \o DotPdf
        odt         == run_pandoc_odt(fsys, e.pandoc, input, volume_name,
                                      output, odt_file)
    IN  IF ~e.template THEN [ok |-> FALSE, fs |-> fsys]
        ELSE IF volume_name \notin DOMAIN fsys[input] THEN [ok |-> FALSE, fs |-> fsys]
        ELSE IF ~odt.ok THEN [ok |-> FALSE, fs |-> fsys]
        ELSE [ok |-> TRUE,
              fs |-> run_libreoffice_pdf(odt.fs, e.libreoffice, 1, output,
                                         odt_file, pdf_file).fs]

(***************************************************************************)
(* Inputs of the pipeline.                                                 *)
(***************************************************************************)
\* A source subdirectory with two chapters and a temporary file.
DirChapters ==
    [exists |-> TRUE,
     files  |-> (FileA :> <<"#", " ", "&", "a", ";", "b", NL>>)
                @@ (FileB :> <<"b", NL, "=", "=", NL>>)
                @@ (FileTmp :> <<"t">>)]

\* A source subdirectory without eligible file.
DirNoEligible == [exists |-> TRUE, files |-> (FileTmp :> <<"t">>)]

PipelineDirs == {NoDirectory, DirNoEligible, DirChapters}

\* The table of the definitions file and the rule set of the styles file.
PipelineEntities == TableAccent

PipelineStyles == << << PatternDef(<<"b">>, <<"X">>) >> >>

\* A file that is neither a volume of the configuration nor of this run.
Leftover == <<"z">>

\* The temporary directories at the start: clean, or with what an earlier
\* run left in them.
TempDirs ==
    { [obj |-> <<>>, unicode |-> <<>>],
      [obj |-> (VolumeName(1) :> Stale), unicode |-> <<>>],
      [obj |-> (Leftover :> Stale), unicode |-> (Leftover :> Stale)] }

\* Outcomes of the candidate commands of run_libreoffice_pdf, lines 81-86.
LibreOfficeOutcomes ==
    { <<"ok", "ok", "ok", "ok">>,
      <<"not_found", "ok", "not_found", "not_found">>,
      <<"error", "error_pdf", "not_found", "not_found">>,
      <<"not_found", "error", "not_found", "not_found">> }

\* The three configuration files, at most one of them missing, the template,
\* and the external programs.
PipelineEnvs ==
    { [volume_list |-> cfg[1], styles |-> cfg[2], name_list |-> cfg[3],
       template |-> t, pandoc |-> p, libreoffice |-> l] :
         cfg \in { <<TRUE, TRUE, TRUE>>, <<FALSE, TRUE, TRUE>>,
                   <<TRUE, FALSE, TRUE>>, <<TRUE, TRUE, FALSE>> },
         t \in BOOLEAN, p \in {"ok", "error"}, l \in LibreOfficeOutcomes }

PipelineArgs ==
    {[vol |-> v] : v \in {<<>>, VolumeName(1), VolumeName(NumVolumes), UnknownVolume}}

InitPipeline ==
    /\ \E src \in [{InputName(k) : k \in 1..NumVolumes} -> PipelineDirs],
          tmp \in TempDirs :
          fs = [src |-> src, obj |-> tmp.obj, unicode |-> tmp.unicode,
                custom |-> <<>>, out |-> <<>>]
    /\ env \in PipelineEnvs
    /\ args \in PipelineArgs
    /\ trace = <<>>
    /\ success = TRUE
    /\ rc = -1
    /\ i = 1
    /\ pc = "merge"
    /\ content = <<>> /\ lines = <<>> /\ processed_content = <<>>
    /\ input_fs = <<>> /\ output_fs = <<>>
    /\ IdleCustomize /\ IdleEntitize /\ IdleDemote /\ IdleStyles

(***************************************************************************)
(* build_books.main, lines 69-156, one action per stage; build.main, which *)
(* it calls at line 133, one action per volume of its loop.  trace records *)
(* every call of a stage's main and of build_volume with its result.       *)
(***************************************************************************)
StageCall(name, input, output, result) ==
    [call |-> name, input |-> input, output |-> output, volume |-> <<>>,
     result |-> result]

VolumeCall(name, input, output, result) ==
    [call |-> "build_volume", input |-> input, output |-> output,
     volume |-> name, result |-> result]

pipelineFrame ==
    /\ UNCHANGED <<content, lines, processed_content, args, env>>
    /\ UNCHANGED <<customizeVars, entitizeVars, demoteVars, stylesVars>>
    /\ UNCHANGED <<input_fs, output_fs>>

\* StageFiles as it would be if, without -vol, a stage were given only the
\* files of the volumes the merger wrote in this run.
StageFilesMergedOnly(dir) ==
    IF args.vol # <<>>
    THEN Listing({<<dir, n>> : n \in {args.vol} \cap DOMAIN fs[dir]})
    ELSE Listing({<<dir, n>> : n \in
            {m \in DOMAIN fs[dir] :
                \E k \in 1..NumVolumes :
                   /\ m = VolumeName(k)
                   /\ fs.src[InputName(k)].exists
                   /\ md_files(fs.src[InputName(k)].files) # <<>>}})

\* The '*.md' files a stage is given (lines 84-90 and 107-113): the file of
\* the volume named by -vol if it exists, else every file of the directory.
StageFiles(dir) ==
    IF args.vol # <<>>
    THEN Listing({<<dir, n>> : n \in {args.vol} \cap DOMAIN fs[dir]})
    ELSE Listing({<<dir, n>> : n \in DOMAIN fs[dir]})

\* Lines 69-78: step 1, merge.main.
PipelineMerge ==
    /\ pc = "merge"
    /\ LET r == merge_main(fs, env.volume_list, args.vol, "obj")
       IN  /\ fs' = r.fs
           /\ trace' = Append(trace, StageCall("merge.main", "src", "obj", r.rc))
           /\ IF r.rc # 0
              THEN rc' = 1 /\ pc' = "exit"
              ELSE pc' = "entitize" /\ UNCHANGED rc
    /\ UNCHANGED <<i, success>>
    /\ pipelineFrame

\* PipelineEntitize as it would be if it went on after a failed stage.
PipelineEntitizeIgnoresResult ==
    /\ pc = "entitize"
    /\ IF StageFiles("obj") = <<>>
       THEN rc' = 1 /\ pc' = "exit" /\ UNCHANGED <<fs, trace>>
       ELSE LET r == entitize_main(fs, env.name_list, PipelineEntities,
                                   StageFiles("obj"), "unicode")
            IN  /\ fs' = r.fs
                /\ trace' = Append(trace,
                                   StageCall("entitize.main", "obj", "unicode", r.rc))
                /\ pc' = "customize" /\ UNCHANGED rc
    /\ UNCHANGED <<i, success>>
    /\ pipelineFrame

\* Lines 80-101: step 2, entitize.main on the merged files.
PipelineEntitize ==
    /\ pc = "entitize"
    /\ IF StageFiles("obj") = <<>>
       THEN rc' = 1 /\ pc' = "exit" /\ UNCHANGED <<fs, trace>>
       ELSE LET r == entitize_main(fs, env.name_list, PipelineEntities,
                                   StageFiles("obj"), "unicode")
            IN  /\ fs' = r.fs
                /\ trace' = Append(trace,
                                   StageCall("entitize.main", "obj", "unicode", r.rc))
                /\ IF r.rc # 0
                   THEN rc' = 1 /\ pc' = "exit"
                   ELSE pc' = "customize" /\ UNCHANGED rc
    /\ UNCHANGED <<i, success>>
    /\ pipelineFrame

\* Lines 103-124: step 3, customize.main on the files of step 2.
PipelineCustomize ==
    /\ pc = "customize"
    /\ IF StageFiles("unicode") = <<>>
       THEN rc' = 1 /\ pc' = "exit" /\ UNCHANGED <<fs, trace>>
       ELSE LET r == customize_main(fs, env.styles, PipelineStyles,
                                    StageFiles("unicode"), "custom")
            IN  /\ fs' = r.fs
                /\ trace' = Append(trace,
                                   StageCall("customize.main", "unicode", "custom", r.rc))
                /\ IF r.rc # 0
                   THEN rc' = 1 /\ pc' = "exit"
                   ELSE pc' = "build" /\ UNCHANGED rc
    /\ UNCHANGED <<i, success>>
    /\ pipelineFrame

\* build.main with -vol (lines 230-261, 268) and lines 133-156 of the
\* pipeline: one volume is built and both return.
PipelineBuildOne ==
    /\ pc = "build"
    /\ args.vol # <<>>
    /\ IF ~env.volume_list \/ args.vol \notin VolumeNames
       THEN /\ trace' = Append(trace, StageCall("build.main", "custom", "out", 1))
            /\ rc' = 1
            /\ UNCHANGED <<fs, success>>
       ELSE LET r == build_volume(fs, env, args.vol,
                                  VolumeConfig(VolumeIndex(args.vol)), "custom", "out")
            IN  /\ fs' = r.fs
                /\ success' = r.ok
                /\ trace' = trace \o
                       << VolumeCall(args.vol, "custom", "out", r.ok),
                          StageCall("build.main", "custom", "out",
                                    IF r.ok THEN 0 ELSE 1) >>
                /\ rc' = IF r.ok THEN 0 ELSE 1
    /\ pc' = "exit"
    /\ UNCHANGED i
    /\ pipelineFrame

\* build.main without -vol, lines 230-255 and 263: the loop starts.
PipelineBuildAll ==
    /\ pc = "build"
    /\ args.vol = <<>>
    /\ IF ~env.volume_list
       THEN /\ trace' = Append(trace, StageCall("build.main", "custom", "out", 1))
            /\ rc' = 1 /\ pc' = "exit"
            /\ UNCHANGED <<i, success>>
       ELSE /\ success' = TRUE
            /\ i' = 1
            /\ pc' = "build_each"
            /\ UNCHANGED <<trace, rc>>
    /\ UNCHANGED fs
    /\ pipelineFrame

\* BuildEach as it would be if the first failed volume ended the loop.
BuildEachStopsOnFailure ==
    /\ pc = "build_each" /\ i <= NumVolumes
    /\ LET r == build_volume(fs, env, VolumeName(i), VolumeConfig(i), "custom", "out")
       IN  /\ fs' = r.fs
           /\ success' = (success /\ r.ok)
           /\ trace' = Append(trace, VolumeCall(VolumeName(i), "custom", "out", r.ok))
           /\ i' = IF r.ok THEN i + 1 ELSE NumVolumes + 1
    /\ UNCHANGED <<pc, rc>>
    /\ pipelineFrame

\* build.main, lines 264-266: one volume of the loop, in mapping order.
BuildEach ==
    /\ pc = "build_each" /\ i <= NumVolumes
    /\ LET r == build_volume(fs, env, VolumeName(i), VolumeConfig(i), "custom", "out")
       IN  /\ fs' = r.fs
           /\ success' = (success /\ r.ok)
           /\ trace' = Append(trace, VolumeCall(VolumeName(i), "custom", "out", r.ok))
    /\ i' = i + 1
    /\ UNCHANGED <<pc, rc>>
    /\ pipelineFrame

\* build.main, line 268, and lines 133-156 of the pipeline.
BuildReturn ==
    /\ pc = "build_each" /\ i > NumVolumes
    /\ trace' = Append(trace, StageCall("build.main", "custom", "out",
                                        IF success THEN 0 ELSE 1))
    /\ rc' = IF success THEN 0 ELSE 1
    /\ pc' = "exit"
    /\ UNCHANGED <<i, fs, success>>
    /\ pipelineFrame

NextPipeline ==
    \/ PipelineMerge \/ PipelineEntitize \/ PipelineCustomize
    \/ PipelineBuildOne \/ PipelineBuildAll \/ BuildEach \/ BuildReturn

SpecPipeline == InitPipeline /\ [][NextPipeline]_vars

(***************************************************************************)
(* Properties of the pipeline.                                             *)
(***************************************************************************)
StageNames == <<"merge.main", "entitize.main", "customize.main", "build.main">>

\* The calls of the stages' mains made so far, in order.
StageCalls == SelectSeq(trace, LAMBDA c : c.call # "build_volume")

\* The calls of build_volume made so far, in order.
VolumeCalls == SelectSeq(trace, LAMBDA c : c.call = "build_volume")

\* The number of stages that have returned when control is at the position.
StagesBefore(position) ==
    CASE position = "merge"      -> 0
      [] position = "entitize"   -> 1
      [] position = "customize"  -> 2
      [] position = "build"      -> 3
      [] position = "build_each" -> 3

\* The call the step has just added to the trace.
NewCall == trace'[Len(trace')]

\* The files of directory dir the stage was given in this step.
GivenFiles(dir) ==
    IF args.vol # <<>> THEN {args.vol} \cap DOMAIN fs[dir] ELSE DOMAIN fs[dir]

\* C11: the stages' mains are called in the order merge, entitize,
\* customize, build, each at most once; while a stage is running every
\* stage before it has returned 0; each stage is given the directory the
\* stage before it wrote and writes only its own output directory, every
\* file it writes being made from the file of the same name of the
\* directory it reads; and once a stage has returned nonzero the pipeline
\* has returned 1 with no later stage called.
C11_StageOrder ==
    /\ [](LET st == StageCalls
          IN  /\ Len(st) <= Len(StageNames)
              /\ \A n \in 1..Len(st) : st[n].call = StageNames[n]
              /\ \A n \in 1..(Len(st) - 1) : st[n].result = 0
              /\ \A n \in 2..Len(st) : st[n].input = st[n - 1].output
              /\ pc # "exit" =>
                    /\ Len(st) = StagesBefore(pc)
                    /\ \A n \in 1..Len(st) : st[n].result = 0
              /\ VolumeCalls # <<>> =>
                    /\ Len(st) >= 3
                    /\ \A c \in 1..Len(VolumeCalls) :
                          VolumeCalls[c].input = st[3].output
              /\ (st # <<>> /\ st[Len(st)].result # 0) => (pc = "exit" /\ rc = 1))
    /\ [][ trace' # trace =>
             /\ \A d \in DOMAIN fs \ {NewCall.output} : fs'[d] = fs[d]
             /\ (NewCall.call = "entitize.main" /\ NewCall.result = 0) =>
                   \A n \in GivenFiles("obj") :
                      fs'.unicode[n] = replace_entities(fs.obj[n], PipelineEntities)
             /\ (NewCall.call = "customize.main" /\ NewCall.result = 0) =>
                   \A n \in GivenFiles("unicode") :
                      fs'.custom[n] = customize_process_file(fs.unicode[n], PipelineStyles)
             /\ (NewCall.call = "build_volume" /\ NewCall.result) =>
                   \E o \in DOMAIN fs'.out :
                      fs'.out[o] = Odt(fs.custom[NewCall.volume])
         ]_vars

\* A finished run in which all four stages were called and the document of
\* a volume went through every directory.
C11_Witness ==
    /\ pc = "exit"
    /\ Len(StageCalls) = 4
    /\ \E k \in 1..NumVolumes :
          /\ VolumeName(k) \in DOMAIN fs.obj
          /\ VolumeName(k) \in DOMAIN fs.unicode
          /\ VolumeName(k) \in DOMAIN fs.custom
          /\ fs.unicode[VolumeName(k)] # fs.obj[VolumeName(k)]
          /\ fs.custom[VolumeName(k)] # fs.unicode[VolumeName(k)]
          /\ \E o \in DOMAIN fs.out : fs.out[o] = Odt(fs.custom[VolumeName(k)])

\* One of the three configuration files of the run is missing.
ConfigMissing == ~env.volume_list \/ ~env.styles \/ ~env.name_list

\* build_volume has returned True for some volume.
SomeVolumeBuilt == \E c \in 1..Len(VolumeCalls) : VolumeCalls[c].result

\* C12 as stated: the pipeline returns nonzero only if no volume was built
\* or a configuration file was missing; with all configuration present and
\* one volume built, the failure of another volume leaves the exit code 0.
C12_Original ==
    (pc = "exit" /\ rc # 0) => (ConfigMissing \/ ~SomeVolumeBuilt)

\* C13: called without its configuration file, merge.main, entitize.main
\* and customize.main each return 1 and leave every directory as it was,
\* and a pipeline run in which one of the three files is missing ends with
\* a nonzero exit code.
C13_MissingArtifactFatal ==
    /\ []((pc = "exit" /\ ConfigMissing) => rc = 1)
    /\ [][ trace' # trace =>
             /\ (NewCall.call = "merge.main" /\ ~env.volume_list) =>
                   (NewCall.result = 1 /\ fs' = fs)
             /\ (NewCall.call = "entitize.main" /\ ~env.name_list) =>
                   (NewCall.result = 1 /\ fs' = fs)
             /\ (NewCall.call = "customize.main" /\ ~env.styles) =>
                   (NewCall.result = 1 /\ fs' = fs)
         ]_vars

\* The run has ended in entitize.main, called with merged files to process
\* and no definitions file.
C13_Witness ==
    /\ pc = "exit"
    /\ ~env.name_list
    /\ Len(StageCalls) = 2
    /\ StageCalls[2].result = 1
    /\ fs.obj # <<>> /\ fs.unicode = <<>>

(***************************************************************************)
(* customize.apply_styles, lines 47-64, one action per rule.  content is   *)
(* the text passed in, processed_content the value of the local 'content'  *)
(* as the rules rewrite it, i the index of the style and pattern_index the *)
(* index of the rule within it.                                            *)
(***************************************************************************)
MaxStyleLines == 2

DigitValue ==
    ("0" :> 0) @@ ("1" :> 1) @@ ("2" :> 2) @@ ("3" :> 3) @@ ("4" :> 4)
    @@ ("5" :> 5) @@ ("6" :> 6) @@ ("7" :> 7) @@ ("8" :> 8) @@ ("9" :> 9)

\* The largest repetition count re accepts, as decimal digits.
MAXREPEAT == <<"4", "2", "9", "4", "9", "6", "7", "2", "9", "5">>

RECURSIVE DropZeros(_)
DropZeros(digits) ==
    IF digits # <<>> /\ Head(digits) = "0" THEN DropZeros(Tail(digits)) ELSE digits

\* x >= y for two numbers without leading zeros, given as equally long digits.
RECURSIVE DigitsAtLeast(_, _)
DigitsAtLeast(x, y) ==
    IF x = <<>> THEN TRUE
    ELSE IF Head(x) # Head(y) THEN DigitValue[Head(x)] > DigitValue[Head(y)]
    ELSE DigitsAtLeast(Tail(x), Tail(y))

\* x >= y for two decimal numbers.
DecimalAtLeast(x, y) ==
    LET a == DropZeros(x)
        b == DropZeros(y)
    IN  Len(a) > Len(b) \/ (Len(a) = Len(b) /\ DigitsAtLeast(a, b))

\* The pattern repeats an item '{n}' times with n >= MAXREPEAT: compiling it
\* raises OverflowError, which is no re.error.  (Patterns with a smaller
\* count are outside the patterns the rule sets draw from.)
ReTooLarge(pattern) ==
    \E a, b \in 1..Len(pattern) :
        /\ a + 1 < b
        /\ pattern[a] = "{" /\ pattern[b] = "}"
        /\ \A k \in (a + 1)..(b - 1) : pattern[k] \in DOMAIN DigitValue
        /\ DecimalAtLeast(SubSeq(pattern, a + 1, b - 1), MAXREPEAT)

\* A rule whose count is too large, followed by a valid rule.
CfgOverflow ==
    << << PatternDef(<<"a", "{", "4", "2", "9", "4", "9", "6", "7", "2", "9", "6", "}">>,
                     <<"X">>),
          PatternDef(<<"a">>, <<"b">>) >> >>

\* A malformed rule in one style, valid rules in the next.
CfgMalformedFirst ==
    << << PatternDef(<<"(", "a">>, <<"X">>) >>,
       << PatternDef(<<"a">>, <<"b">>), PatternDef(<<"b">>, <<"c">>) >> >>

StyleRuleSets == StyleConfigs \cup {CfgOverflow, CfgMalformedFirst}

InitStyles ==
    /\ \E ls \in SeqsUpTo(CustomizeLines, MaxStyleLines) : content = Join(ls)
    /\ styles_config \in StyleRuleSets
    /\ processed_content = content
    /\ i = 1
    /\ pattern_index = 1
    /\ warnings = 0
    /\ pc = "styles"
    /\ lines = <<>>
    /\ out_lines = <<>> /\ buffer = <<>> /\ in_fenced = FALSE
    /\ IdleEntitize /\ IdleDemote /\ IdleMerge /\ IdlePipeline

\* The rule the loops are at.
CurrentRule == styles_config[i][pattern_index]

AtRule ==
    /\ pc = "styles"
    /\ i <= Len(styles_config)
    /\ pattern_index <= Len(styles_config[i])

stylesFrame ==
    /\ UNCHANGED <<content, lines, styles_config, out_lines, buffer, in_fenced>>
    /\ UNCHANGED <<entitizeVars, demoteVars, mergeVars, pipelineVars>>

\* The pattern is one re.sub can compile.
Compiles(pattern) == ~ReMalformed(pattern) /\ ~ReTooLarge(pattern)

\* RuleSkipped as it would be if a rule with an empty replacement deleted
\* its matches.
RuleSkippedDeletes ==
    /\ AtRule
    /\ CurrentRule.pattern = <<>> \/ CurrentRule.replacement = <<>>
    /\ processed_content' =
          IF CurrentRule.pattern # <<>> /\ Compiles(CurrentRule.pattern)
          THEN ReSub(CurrentRule.pattern, <<>>, processed_content)
          ELSE processed_content
    /\ pattern_index' = pattern_index + 1
    /\ UNCHANGED <<pc, i, warnings>>
    /\ stylesFrame

\* Line 56: the pattern or the replacement is empty; the rule is passed over.
RuleSkipped ==
    /\ AtRule
    /\ CurrentRule.pattern = <<>> \/ CurrentRule.replacement = <<>>
    /\ pattern_index' = pattern_index + 1
    /\ UNCHANGED <<pc, i, processed_content, warnings>>
    /\ stylesFrame

\* Line 59: re.sub rewrites the text.
RuleApplied ==
    /\ AtRule
    /\ CurrentRule.pattern # <<>> /\ CurrentRule.replacement # <<>>
    /\ ~ReTooLarge(CurrentRule.pattern) /\ ~ReMalformed(CurrentRule.pattern)
    /\ processed_content' =
          ReSub(CurrentRule.pattern, CurrentRule.replacement, processed_content)
    /\ pattern_index' = pattern_index + 1
    /\ UNCHANGED <<pc, i, warnings>>
    /\ stylesFrame

\* Lines 61-62: re.sub raised re.error; a warning, and the loop goes on.
RuleMalformed ==
    /\ AtRule
    /\ CurrentRule.pattern # <<>> /\ CurrentRule.replacement # <<>>
    /\ ~ReTooLarge(CurrentRule.pattern) /\ ReMalformed(CurrentRule.pattern)
    /\ warnings' = warnings + 1
    /\ pattern_index' = pattern_index + 1
    /\ UNCHANGED <<pc, i, processed_content>>
    /\ stylesFrame

\* Line 59: re.sub raised OverflowError, which line 61 does not catch; the
\* exception leaves apply_styles.
RuleOverflow ==
    /\ AtRule
    /\ CurrentRule.pattern # <<>> /\ CurrentRule.replacement # <<>>
    /\ ReTooLarge(CurrentRule.pattern)
    /\ pc' = "raised"
    /\ UNCHANGED <<i, pattern_index, processed_content, warnings>>
    /\ stylesFrame

\* Line 49: the patterns of the style are done; the next style.
StyleDone ==
    /\ pc = "styles"
    /\ i <= Len(styles_config)
    /\ pattern_index > Len(styles_config[i])
    /\ i' = i + 1
    /\ pattern_index' = 1
    /\ UNCHANGED <<pc, processed_content, warnings>>
    /\ stylesFrame

\* Line 64.
StylesReturn ==
    /\ pc = "styles"
    /\ i > Len(styles_config)
    /\ pc' = "returned"
    /\ UNCHANGED <<i, pattern_index, processed_content, warnings>>
    /\ stylesFrame

NextStyles ==
    \/ RuleSkipped \/ RuleApplied \/ RuleMalformed \/ RuleOverflow
    \/ StyleDone \/ StylesReturn

SpecStyles == InitStyles /\ [][NextStyles]_vars

(***************************************************************************)
(* Properties of customize.apply_styles.                                   *)
(***************************************************************************)
\* The step passes from the current rule to the next rule of the same style.
NextRule == pc' = "styles" /\ i' = i /\ pattern_index' = pattern_index + 1

\* C14 as stated: the rules are taken in declaration order of styles and of
\* pairs within a style, each once, and every pair (of a pattern that can be
\* compiled) is applied as a substitution to the text the substitutions
\* before it produced.
C14_Original ==
    [][ (AtRule /\ Compiles(CurrentRule.pattern)) =>
          /\ NextRule
          /\ processed_content' =
                ReSub(CurrentRule.pattern, CurrentRule.replacement, processed_content)
      ]_vars

\* C15 as stated: at a rule whose regular expression cannot be compiled the
\* text stays as it was before that rule, the loop goes on with the next
\* rule, and apply_styles never ends with an exception.
C15_Original ==
    /\ [][ (AtRule /\ CurrentRule.pattern # <<>> /\ CurrentRule.replacement # <<>>
                   /\ ~Compiles(CurrentRule.pattern)) =>
             (NextRule /\ processed_content' = processed_content)
         ]_vars
    /\ [](pc # "raised")

(***************************************************************************)
(* entitize.load_entities, lines 31-48, one action per line of the         *)
(* definitions file.  lines holds the lines of the file, each with its     *)
(* line ending, entities the table built so far.                           *)
(***************************************************************************)
MaxDefLines == 3

\* str.split(): the fields of a line, separated by runs of whitespace.
RECURSIVE FieldEnd(_, _)
FieldEnd(s, k) ==
    IF k <= Len(s) /\ s[k] \notin Whitespace THEN FieldEnd(s, k + 1) ELSE k

RECURSIVE Split(_)
Split(s) ==
    LET t == LStrip(s)
        e == FieldEnd(t, 1)
    IN  IF t = <<>> THEN <<>>
        ELSE <<SubSeq(t, 1, e - 1)>> \o Split(SubSeq(t, e, Len(t)))

HexValue ==
    DigitValue
    @@ ("a" :> 10) @@ ("b" :> 11) @@ ("c" :> 12) @@ ("d" :> 13) @@ ("e" :> 14)
    @@ ("f" :> 15) @@ ("A" :> 10) @@ ("B" :> 11) @@ ("C" :> 12) @@ ("D" :> 13)
    @@ ("E" :> 14) @@ ("F" :> 15)

\* The digits of a hex code after its "0x".
HexBody(hex_code) == SubSeq(hex_code, 3, Len(hex_code))

\* int(hex_code, 16) accepts the code: hex digits after the "0x", with single
\* underscores allowed before each digit.
IsHexLiteral(hex_code) ==
    LET body == HexBody(hex_code)
    IN  /\ body # <<>>
        /\ \A k \in 1..Len(body) : body[k] \in DOMAIN HexValue \cup {"_"}
        /\ body[Len(body)] # "_"
        /\ \A k \in 1..(Len(body) - 1) : ~(body[k] = "_" /\ body[k + 1] = "_")

\* The significant digits of the code: no underscores, no leading zeros.
SignificantDigits(hex_code) ==
    DropZeros(SelectSeq(HexBody(hex_code), LAMBDA c : c # "_"))

RECURSIVE HexNumber(_, _)
HexNumber(digits, acc) ==
    IF digits = <<>> THEN acc
    ELSE HexNumber(Tail(digits), 16 * acc + HexValue[Head(digits)])

\* What chr(int(hex_code, 16)) does: "char" for a code point below 0x110000,
\* "ValueError" for a text int rejects and for a number chr rejects,
\* "OverflowError" for a number that does not fit a C int (2^31 and more).
ChrOutcome(hex_code) ==
    LET digits == SignificantDigits(hex_code)
    IN  IF ~IsHexLiteral(hex_code) THEN "ValueError"
        ELSE IF Len(digits) > 8 THEN "OverflowError"
        ELSE IF Len(digits) = 8
             THEN IF HexValue[digits[1]] >= 8 THEN "OverflowError" ELSE "ValueError"
        ELSE IF HexNumber(digits, 0) < 1114112 THEN "char"
        ELSE "ValueError"

\* The characters of the code points the definitions files name.
Chr == (38 :> "&") @@ (59 :> ";") @@ (69 :> "E")

\* Lines of a definitions file: two definitions of one name, a definition
\* with spaces around and a third field, a name that starts with a digit, a
\* blank line, a comment, a line with one field, a code without "0x", a code
\* that is no hex number, a code above the last code point, and a code that
\* does not fit 31 bits.
DefinitionLines == {
    <<"0", "x", "4", "5", " ", "a", NL>>,
    <<"0", "x", "2", "6", " ", "a", NL>>,
    <<" ", "0", "x", "3", "B", " ", " ", "b", " ", "x", NL>>,
    <<"0", "x", "4", "5", " ", "1", "a", NL>>,
    <<NL>>,
    <<"#", "0", "x", "4", "5", " ", "a", NL>>,
    <<"0", "x", "4", "5", NL>>,
    <<"4", "5", " ", "a", NL>>,
    <<"0", "x", "g", " ", "a", NL>>,
    <<"0", "x", "1", "1", "0", "0", "0", "0", " ", "a", NL>>,
    <<"0", "x", "8", "0", "0", "0", "0", "0", "0", "0", " ", "b", NL>> }

InitLoad ==
    /\ lines \in SeqsUpTo(DefinitionLines, MaxDefLines)
    /\ entities = <<>>
    /\ i = 1
    /\ pc = "load"
    /\ content = <<>> /\ processed_content = <<>>
    /\ IdleCustomize /\ IdleDemote /\ IdleMerge /\ IdleStyles /\ IdlePipeline

\* Lines 35-37: the line, trimmed, and its fields.
CurrentLine == Strip(lines[i])

CurrentParts == Split(CurrentLine)

AtLine == pc = "load" /\ i <= Len(lines)

\* Line 36 is true and lines 38 and 41 too: the code goes to chr.
AtDefinition ==
    /\ AtLine
    /\ CurrentLine # <<>> /\ ~StartsWith(CurrentLine, <<"#">>)
    /\ Len(CurrentParts) >= 2
    /\ StartsWith(CurrentParts[1], <<"0", "x">>)

loadFrame ==
    /\ UNCHANGED <<content, lines, processed_content>>
    /\ UNCHANGED <<customizeVars, demoteVars, mergeVars, stylesVars, pipelineVars>>

\* Line 36: a blank line or a comment.
LoadIgnored ==
    /\ AtLine
    /\ CurrentLine = <<>> \/ StartsWith(CurrentLine, <<"#">>)
    /\ i' = i + 1
    /\ UNCHANGED <<pc, entities>>
    /\ loadFrame

\* Lines 38 and 41: fewer than two fields, or a code without "0x".
LoadNotADefinition ==
    /\ AtLine
    /\ CurrentLine # <<>> /\ ~StartsWith(CurrentLine, <<"#">>)
    /\ \/ Len(CurrentParts) < 2
       \/ ~StartsWith(CurrentParts[1], <<"0", "x">>)
    /\ i' = i + 1
    /\ UNCHANGED <<pc, entities>>
    /\ loadFrame

\* Lines 43-44: the entry is stored under the second field, whatever it is.
LoadEntry ==
    /\ AtDefinition
    /\ ChrOutcome(CurrentParts[1]) = "char"
    /\ entities' = (CurrentParts[2] :>
                       Chr[HexNumber(SignificantDigits(CurrentParts[1]), 0)])
                   @@ entities
    /\ i' = i + 1
    /\ UNCHANGED pc
    /\ loadFrame

\* Lines 45-46: ValueError; a warning, and the loop goes on.
LoadInvalidCode ==
    /\ AtDefinition
    /\ ChrOutcome(CurrentParts[1]) = "ValueError"
    /\ i' = i + 1
    /\ UNCHANGED <<pc, entities>>
    /\ loadFrame

\* Line 43: chr raised OverflowError, which line 45 does not catch; the
\* exception leaves load_entities.
LoadOverflow ==
    /\ AtDefinition
    /\ ChrOutcome(CurrentParts[1]) = "OverflowError"
    /\ pc' = "raised"
    /\ UNCHANGED <<i, entities>>
    /\ loadFrame

\* Line 48.
LoadReturn ==
    /\ pc = "load" /\ i > Len(lines)
    /\ pc' = "returned"
    /\ UNCHANGED <<i, entities>>
    /\ loadFrame

NextLoad ==
    \/ LoadIgnored \/ LoadNotADefinition \/ LoadEntry \/ LoadInvalidCode
    \/ LoadOverflow \/ LoadReturn

SpecLoad == InitLoad /\ [][NextLoad]_vars

(***************************************************************************)
(* Properties of entitize.load_entities.                                   *)
(***************************************************************************)
\* A line that defines an entity: not blank, no comment, two fields or more,
\* the first a "0x" code that parses to a valid code point.
ValidDefinition(line) ==
    LET parts == Split(Strip(line))
    IN  /\ Strip(line) # <<>>
        /\ ~StartsWith(Strip(line), <<"#">>)
        /\ Len(parts) >= 2
        /\ StartsWith(parts[1], <<"0", "x">>)
        /\ ChrOutcome(parts[1]) = "char"

DefinedName(line) == Split(Strip(line))[2]

DefinedChar(line) ==
    Chr[HexNumber(SignificantDigits(Split(Strip(line))[1]), 0)]

\* C16 as stated: load_entities never ends with an exception; a line that
\* is no valid definition adds no entry and the loop goes on with the next
\* line; and the table returned holds, for every name defined on a valid
\* line, the character of the last valid line that defines it.
C16_Original ==
    /\ [](pc # "raised")
    /\ [][ (AtLine /\ ~ValidDefinition(lines[i])) =>
             (entities' = entities /\ i' = i + 1 /\ pc' = "load")
         ]_vars
    /\ [](pc = "returned" =>
            \A k \in 1..Len(lines) :
               (/\ ValidDefinition(lines[k])
                /\ \A m \in (k + 1)..Len(lines) :
                      ValidDefinition(lines[m]) =>
                         DefinedName(lines[m]) # DefinedName(lines[k]))
               => /\ DefinedName(lines[k]) \in DOMAIN entities
                  /\ entities[DefinedName(lines[k])] = DefinedChar(lines[k]))

\* C17 as stated: every key of the table returned is an identifier and
\* every value is one character.
C17_Original ==
    pc = "returned" =>
        \A name \in DOMAIN entities :
            /\ IsIdentifier(name)
            /\ entities[name] \in {Chr[c] : c \in DOMAIN Chr}

(***************************************************************************)
(* entitize.main and customize.main called on their own: files named on    *)
(* the command line, --output given or not.  The directories are the       *)
(* working directory "cwd" and one other; args.output is "" when the       *)
(* option is not given, and lines 135 (entitize) and 162 (customize) then  *)
(* take the working directory.                                             *)
(***************************************************************************)
MaxStageFiles == 2

StageDirs == {"cwd", "other"}

StageTexts == { <<"&", "a", ";", "b">>, <<"b">> }

\* The files a directory can hold.
StageDirFiles ==
    UNION { [S -> StageTexts] : S \in SUBSET {FileA, FileB} }

StagePaths == StageDirs \X {FileA, FileB}

StageArgs ==
    { [stage |-> st, files |-> f, output |-> o] :
        st \in {"entitize", "customize"},
        f \in SeqsUpTo(StagePaths, MaxStageFiles) \ {<<>>},
        o \in {""} \cup StageDirs }

InitStage ==
    /\ fs \in [StageDirs -> StageDirFiles]
    /\ args \in StageArgs
    /\ env \in {[config |-> b] : b \in BOOLEAN}
    /\ rc = -1
    /\ pc = "main"
    /\ trace = <<>> /\ success = TRUE
    /\ i = 1
    /\ content = <<>> /\ lines = <<>> /\ processed_content = <<>>
    /\ input_fs = <<>> /\ output_fs = <<>>
    /\ IdleCustomize /\ IdleEntitize /\ IdleDemote /\ IdleStyles

\* entitize.py 135, customize.py 162.
OutputDir == IF args.output # "" THEN args.output ELSE "cwd"

stageFrame ==
    /\ UNCHANGED <<i, content, lines, processed_content, args, env, trace, success>>
    /\ UNCHANGED <<customizeVars, entitizeVars, demoteVars, stylesVars>>
    /\ UNCHANGED <<input_fs, output_fs>>

\* entitize.main, lines 124-155.
StageEntitize ==
    /\ pc = "main"
    /\ args.stage = "entitize"
    /\ LET r == entitize_main(fs, env.config, PipelineEntities, args.files, OutputDir)
       IN  fs' = r.fs /\ rc' = r.rc
    /\ pc' = "exit"
    /\ stageFrame

\* customize.main, lines 151-182.
StageCustomize ==
    /\ pc = "main"
    /\ args.stage = "customize"
    /\ LET r == customize_main(fs, env.config, PipelineStyles, args.files, OutputDir)
       IN  fs' = r.fs /\ rc' = r.rc
    /\ pc' = "exit"
    /\ stageFrame

NextStage == StageEntitize \/ StageCustomize

SpecStage == InitStage /\ [][NextStage]_vars

\* C18 as stated: when a stage's main has processed its files, every file it
\* read is another file than the one written for it, and holds afterwards
\* what it held before.
C18_Original ==
    [][ (pc = "main" /\ rc' = 0) =>
          \A k \in 1..Len(args.files) :
             LET dir  == args.files[k][1]
                 name == args.files[k][2]
             IN  name \in DOMAIN fs[dir] =>
                    /\ <<OutputDir, name>> # <<dir, name>>
                    /\ fs'[dir][name] = fs[dir][name]
      ]_vars

(***************************************************************************)
(* The loop of build.main over the volumes, within the pipeline.           *)
(***************************************************************************)
\* The calls of build_volume made so far are those for the first n volumes
\* of the mapping, one each, in mapping order, each with a Boolean result.
FirstVolumesBuilt(n) ==
    /\ Len(VolumeCalls) = n
    /\ \A k \in 1..n :
          /\ VolumeCalls[k].volume = VolumeName(k)
          /\ VolumeCalls[k].result \in BOOLEAN

\* build.main has run its loop to the end and returned.
LoopReturned ==
    /\ pc = "exit"
    /\ args.vol = <<>>
    /\ env.volume_list
    /\ Len(StageCalls) = 4

\* C19: without -vol, build.main calls build_volume once for every volume
\* of the mapping, in mapping order, whether or not earlier calls returned
\* False: inside the loop the calls made are those of the volumes before
\* the current one, each step of the loop calls build_volume for the
\* current volume and stays in the loop, and when build.main has returned
\* all volumes have been called once; every result is True or False.
C19_LoopContinues ==
    /\ [](pc = "build_each" => FirstVolumesBuilt(i - 1))
    /\ [](LoopReturned => FirstVolumesBuilt(NumVolumes))
    /\ [][ (pc = "build_each" /\ i <= NumVolumes) =>
              /\ pc' = "build_each"
              /\ Len(trace') = Len(trace) + 1
              /\ NewCall.call = "build_volume"
              /\ NewCall.volume = VolumeName(i)
              /\ NewCall.result \in BOOLEAN
         ]_vars

\* build.main has returned after a loop in which build_volume returned
\* False for one volume and True for a later one.
C19_Witness ==
    /\ LoopReturned
    /\ \E k, m \in 1..Len(VolumeCalls) :
          k < m /\ ~VolumeCalls[k].result /\ VolumeCalls[m].result

(***************************************************************************)
(* The pipeline as a run of one process: a call that can be made is made   *)
(* (build_books.main has no loop that waits, and the external programs are *)
(* taken to return).  This is weak fairness of NextPipeline with its       *)
(* enabling condition written out: every position before the exit has an  *)
(* action whose guard is the position (and, in the loop, the side of       *)
(* i <= NumVolumes), and each of them changes pc or i.                     *)
(***************************************************************************)
PipelineRunning == pc # "exit"

SpecPipelineFair ==
    SpecPipeline /\ ([]<>(~PipelineRunning) \/ []<><<NextPipeline>>_vars)

\* The configuration files and the template are present.
ValidConfiguration ==
    env.volume_list /\ env.styles /\ env.name_list /\ env.template

\* pandoc succeeds, and the first candidate command of LibreOffice that is
\* found succeeds.
ToolsSucceed ==
    /\ env.pandoc = "ok"
    /\ \E k \in 1..Len(env.libreoffice) :
          /\ env.libreoffice[k] = "ok"
          /\ \A m \in 1..(k - 1) : env.libreoffice[m] = "not_found"

\* The volumes the run is asked for.
RequestedVolumes ==
    IF args.vol = <<>> THEN 1..NumVolumes
    ELSE {k \in 1..NumVolumes : VolumeName(k) = args.vol}

\* Every volume asked for (and at least one) has a source directory with
\* chapters.
ValidContent ==
    /\ RequestedVolumes # {}
    /\ \A k \in RequestedVolumes : fs.src[InputName(k)] = DirChapters

CleanTempDirs ==
    fs.obj = <<>> /\ fs.unicode = <<>> /\ fs.custom = <<>> /\ fs.out = <<>>

\* The PDF files in the output directory.
PdfFiles == {o \in DOMAIN fs.out : EndsWith(o, DotPdf) /\ fs.out[o][1] = "pdf"}

\* C20: a run of the pipeline that starts with clean temporary directories,
\* all configuration present, chapters for every volume asked for (all of
\* them, or the one named by -vol) and external programs that succeed
\* comes to its end, and the output directory then holds at least one PDF.
C20_EndsWithPdf ==
    (pc = "merge" /\ CleanTempDirs /\ ValidConfiguration /\ ValidContent
       /\ ToolsSucceed)
      ~> (pc = "exit" /\ PdfFiles # {})

\* A run restricted to the first volume has ended with exit code 0, with
\* that volume's file in each temporary directory and its ODT and PDF in the
\* output directory.
C20_Witness ==
    /\ pc = "exit" /\ rc = 0
    /\ ValidConfiguration /\ ToolsSucceed
    /\ args.vol = VolumeName(1)
    /\ DOMAIN fs.obj = {VolumeName(1)}
    /\ DOMAIN fs.custom = {VolumeName(1)}
    /\ PdfFiles = {VolumeName(1) \o DotPdf}

(***************************************************************************)
(* customize.process_file as a whole: plain runs and fence runs.           *)
(***************************************************************************)
\* The text of lines from..to of ls.
RunText(ls, from, to) == Join(SubSeq(ls, from, to))

\* What the lines from the k-th on contribute to the output when plain is
\* the text of the plain run that ends before line k: fence lines as they
\* are, each maximal plain run styled once as one text.
RECURSIVE RunsOutput(_, _, _, _)
RunsOutput(ls, k, plain, cfg) ==
    LET styled == IF plain = <<>> THEN <<>> ELSE apply_styles(plain, cfg)
    IN  IF k > Len(ls) THEN styled
        ELSE IF IsFenceLine(ls, k)
             THEN styled \o ls[k] \o RunsOutput(ls, k + 1, <<>>, cfg)
             ELSE RunsOutput(ls, k + 1, plain \o ls[k], cfg)

\* The first line of the plain run that ends before line k (k itself when
\* line k - 1 is a fence line or k = 1).
PlainRunStart(ls, k) ==
    CHOOSE j \in 1..k :
       /\ \A m \in j..(k - 1) : ~IsFenceLine(ls, m)
       /\ j = 1 \/ IsFenceLine(ls, j - 1)

\* C21: the output of process_file is, in document order, every maximal run
\* of plain lines passed through apply_styles once as one text and every
\* fence line as it is.  While the lines are scanned the pending buffer is
\* exactly the plain run that ends before the current line, not yet styled,
\* and the pieces emitted are the output for the lines before that run; the
\* run is styled when a fence opens or the document ends, and the lines
\* read make up the whole document.
C21_RunsInOrder ==
    /\ Join(lines) = content
    /\ (pc = "scan" /\ i <= Len(lines) + 1) =>
          LET j == PlainRunStart(lines, i)
          IN  /\ buffer = SubSeq(lines, j, i - 1)
              /\ Join(out_lines) =
                    RunsOutput(SubSeq(lines, 1, j - 1), 1, <<>>, styles_config)
    /\ (pc = "done") =>
          /\ buffer = <<>>
          /\ processed_content = RunsOutput(lines, 1, <<>>, styles_config)

\* A finished run over a document with a fence and a plain run of two lines
\* or more that the rules rewrote, where styling the whole document as one
\* text would have given another result.
C21_Witness ==
    /\ pc = "done"
    /\ \E k \in 1..Len(lines) : IsFenceLine(lines, k)
    /\ \E k \in 2..Len(lines) :
          /\ ~IsFenceLine(lines, k - 1) /\ ~IsFenceLine(lines, k)
          /\ apply_styles(RunText(lines, k - 1, k), styles_config)
                # RunText(lines, k - 1, k)
    /\ processed_content # apply_styles(content, styles_config)

(***************************************************************************)
(* demote_headers as one pass over the lines.                              *)
(***************************************************************************)
\* The line is not blank and holds one of "=" and "-" only, once trimmed.
UnderlineLike(line) ==
    /\ Strip(line) # <<>>
    /\ \/ \A k \in 1..Len(Strip(line)) : Strip(line)[k] = "="
       \/ \A k \in 1..Len(Strip(line)) : Strip(line)[k] = "-"

\* C22: demote_headers is one left-to-right pass.  The index only moves
\* forward, by one line or, over a setext pair, by two (the text and its
\* underline), so the underline is never the current line of a later step;
\* every step emits as many lines as it consumes; the loop ends with the
\* index just past the last line; and the text returned has as many lines
\* as the text given.
C22_SinglePass ==
    /\ [](pc = "loop" =>
             /\ i \in 1..(Len(lines) + 1)
             /\ Len(result_lines) = i - 1)
    /\ [](pc = "returned" =>
             /\ i = Len(lines) + 1
             /\ Len(SplitNL(returned[Len(returned)])) = Len(lines))
    /\ [][ (pc = "loop" /\ i <= Len(lines)) =>
              /\ pc' = "loop" /\ lines' = lines
              /\ i' \in {i + 1, i + 2}
              /\ Len(result_lines') = Len(result_lines) + (i' - i)
              /\ SubSeq(result_lines', 1, Len(result_lines)) = result_lines
              /\ (i' = i + 2) =>
                    /\ i + 1 <= Len(lines)
                    /\ UnderlineLike(lines[i + 1])
                    /\ ~IsHashHeader(lines[i])
         ]_vars

\* demote_headers has returned for a fragment in which a setext pair is
\* followed by another underline, which came out as it was.
C22_Witness ==
    /\ pc = "returned"
    /\ \E k \in 1..(Len(lines) - 2) :
          /\ Len(result_lines) = Len(lines)
          /\ DemoteBranch(lines, k) \in {"setext_h1", "setext_h2"}
          /\ UnderlineLike(lines[k + 2])
          /\ result_lines[k + 1] = <<>>
          /\ result_lines[k + 2] = lines[k + 2]

(***************************************************************************)
(* apply_styles at a rule without pattern or without replacement.          *)
(***************************************************************************)
\* C23: at a rule whose pattern or replacement is missing or empty,
\* apply_styles goes on to the next rule with the text as it was and without
\* a warning, also when the rule has a pattern that matches the text and an
\* empty replacement.
C23_EmptyRuleSkipped ==
    [][ (AtRule /\ (CurrentRule.pattern = <<>> \/ CurrentRule.replacement = <<>>))
          => /\ NextRule
             /\ processed_content' = processed_content
             /\ warnings' = warnings
      ]_vars

\* apply_styles has just passed a rule with an empty replacement whose
\* pattern matches the text.
C23_Witness ==
    /\ pc = "styles"
    /\ i <= Len(styles_config)
    /\ pattern_index \in 2..(Len(styles_config[i]) + 1)
    /\ LET rule == styles_config[i][pattern_index - 1]
       IN  /\ rule.pattern # <<>> /\ rule.replacement = <<>>
           /\ Compiles(rule.pattern)
           /\ ReSub(rule.pattern, <<>>, processed_content) # processed_content

(***************************************************************************)
(* customize.process_file on a fence that is never closed.                 *)
(***************************************************************************)
\* No line of ls from the k-th on is ":::" once trimmed.
NoCloserFrom(ls, k) == \A m \in k..Len(ls) : Strip(ls[m]) # FENCE

\* The last n pieces of a sequence.
LastPieces(pieces, n) == SubSeq(pieces, Len(pieces) - n + 1, Len(pieces))

\* C24: a fence that is opened and not closed runs to the end of the
\* document.  When the tracker is INSIDE and no line from the current one on
\* is ":::" once trimmed, the step emits the line as it is, keeps the tracker
\* INSIDE and leaves the (empty) buffer alone; a bare ":::" line met while
\* OUTSIDE opens a fence; and at the end of a document whose fence state
\* after line k is INSIDE with no closing line behind it, the tracker is
\* still INSIDE, the lines after k are the last pieces emitted, each as it
\* was, and process_file has ended normally.
C24_UnclosedFence ==
    /\ [](pc \in {"scan", "done"})
    /\ [](pc = "done" =>
            \A k \in 1..Len(lines) :
               (InsideAfter(lines, k) /\ NoCloserFrom(lines, k + 1)) =>
                  /\ in_fenced
                  /\ Len(out_lines) >= Len(lines) - k
                  /\ LastPieces(out_lines, Len(lines) - k)
                        = SubSeq(lines, k + 1, Len(lines))
                  /\ processed_content = Join(out_lines))
    /\ [][ (pc = "scan" /\ i <= Len(lines)) =>
              /\ (in_fenced /\ NoCloserFrom(lines, i)) =>
                    /\ in_fenced'
                    /\ out_lines' = Append(out_lines, lines[i])
                    /\ buffer = <<>> /\ buffer' = <<>>
                    /\ pc' = "scan" /\ i' = i + 1
              /\ (~in_fenced /\ Strip(lines[i]) = FENCE) => in_fenced'
         ]_vars

\* A finished run, the tracker INSIDE, over a document in which a bare ":::"
\* line met while OUTSIDE opened a fence that no later line closes, with a
\* later line the style rules would have rewritten.
C24_Witness ==
    /\ pc = "done"
    /\ in_fenced
    /\ \E k \in 1..(Len(lines) - 1) :
          /\ ~InsideAfter(lines, k - 1)
          /\ Strip(lines[k]) = FENCE
          /\ NoCloserFrom(lines, k + 1)
          /\ \E m \in (k + 1)..Len(lines) :
                apply_styles(lines[m], styles_config) # lines[m]

(***************************************************************************)
(* The pipeline without -vol on temporary directories that are not empty.  *)
(***************************************************************************)
\* The merger skips every volume: no source directory with an eligible file.
AllVolumesSkipped ==
    \A k \in 1..NumVolumes :
       ~(fs.src[InputName(k)].exists
         /\ EligibleFiles(fs.src[InputName(k)].files) # {})

\* C25: without -vol, entitize.main is called whenever the temporary
\* directory holds a file, and it processes every file of that directory
\* into 'unicode'; customize.main likewise processes every file of
\* 'unicode' into 'custom'; so a file that no merger of this run wrote is
\* processed again.  When the merger skipped every volume, a run on an
\* empty temporary directory returns 1 right after the merger, while a run
\* on one that holds a file goes on to entitize.main.
C25_LeftoversProcessed ==
    /\ [](( pc = "exit" /\ args.vol = <<>> /\ env.volume_list
            /\ AllVolumesSkipped ) =>
             IF fs.obj = <<>>
             THEN rc = 1 /\ Len(StageCalls) = 1
             ELSE Len(StageCalls) >= 2 /\ StageCalls[2].call = "entitize.main")
    /\ [][ args.vol = <<>> =>
             /\ (pc = "entitize" /\ fs.obj # <<>>) =>
                   (trace' # trace /\ NewCall.call = "entitize.main")
             /\ (pc = "customize" /\ fs.unicode # <<>>) =>
                   (trace' # trace /\ NewCall.call = "customize.main")
             /\ (trace' # trace /\ NewCall.call = "entitize.main"
                   /\ NewCall.result = 0) =>
                   \A n \in DOMAIN fs.obj :
                      /\ n \in DOMAIN fs'.unicode
                      /\ fs'.unicode[n] = replace_entities(fs.obj[n], PipelineEntities)
             /\ (trace' # trace /\ NewCall.call = "customize.main"
                   /\ NewCall.result = 0) =>
                   \A n \in DOMAIN fs.unicode :
                      /\ n \in DOMAIN fs'.custom
                      /\ fs'.custom[n] =
                            customize_process_file(fs.unicode[n], PipelineStyles)
         ]_vars

\* A run without -vol in which the merger skipped every volume has gone
\* through all four stages, and the file left by an earlier run is in
\* 'custom'.
C25_Witness ==
    /\ pc = "exit"
    /\ args.vol = <<>>
    /\ AllVolumesSkipped
    /\ Len(StageCalls) = 4
    /\ Leftover \in DOMAIN fs.custom
    /\ fs.custom[Leftover] = Stale

(***************************************************************************)
(* build_volume and run_libreoffice_pdf: what decides success.             *)
(***************************************************************************)
\* The candidates of a list of outcomes at which run_libreoffice_pdf
\* returns True: the command succeeded, or it failed and the PDF file is
\* there (made in spite of the error, or present before).
DecisiveCandidates(outcomes, present) ==
    {k \in 1..Len(outcomes) :
        \/ outcomes[k] \in {"ok", "error_pdf"}
        \/ outcomes[k] = "error" /\ present}

Least(S) == CHOOSE k \in S : \A m \in S : k <= m

SampleOdt == <<"x">> \o DotOdt

SamplePdf == <<"x">> \o DotPdf

\* An output directory with an ODT file and, if present, an older PDF file.
SampleOutput(present) ==
    [out |-> IF present
             THEN (SampleOdt :> Odt(<<"t">>)) @@ (SamplePdf :> Pdf(Odt(Stale)))
             ELSE (SampleOdt :> Odt(<<"t">>))]

\* run_libreoffice_pdf on the candidates' outcomes of this run: it stops at
\* the first decisive candidate and returns True, or tries them all and
\* returns False with the directory as it was.
LibreOfficeInOrder ==
    \A present \in BOOLEAN :
       LET fsys     == SampleOutput(present)
           r        == run_libreoffice_pdf(fsys, env.libreoffice, 1, "out",
                                           SampleOdt, SamplePdf)
           decisive == DecisiveCandidates(env.libreoffice, present)
       IN  IF decisive = {}
           THEN ~r.ok /\ r.tried = Len(env.libreoffice) /\ r.fs = fsys
           ELSE /\ r.ok
                /\ r.tried = Least(decisive)
                /\ r.fs.out[SampleOdt] = fsys.out[SampleOdt]
                /\ IF env.libreoffice[Least(decisive)] = "error"
                   THEN r.fs = fsys
                   ELSE r.fs.out[SamplePdf] = Pdf(Odt(<<"t">>))

OutputName(volume) ==
    Get(VolumeConfig(VolumeIndex(volume)), "output_name", volume)

\* C26: build_volume returns True exactly when the template and the input
\* file exist and pandoc succeeded, whatever PDF generation did; then the
\* ODT file is in the output directory, and the PDF file is there only if
\* some candidate command of LibreOffice succeeded or left it despite its
\* error; when build_volume returns False nothing is written.  The
\* candidates are tried in list order up to the first decisive one.  A run
\* that exits with 0 has the ODT of every volume it built, with or without
\* a PDF.
C26_OdtDecides ==
    /\ [](pc = "build_each" => LibreOfficeInOrder)
    /\ []((pc = "exit" /\ rc = 0) =>
            /\ VolumeCalls # <<>>
            /\ \A c \in 1..Len(VolumeCalls) :
                  /\ VolumeCalls[c].result
                  /\ (OutputName(VolumeCalls[c].volume) \o DotOdt) \in DOMAIN fs.out)
    /\ [][ Len(VolumeCalls') = Len(VolumeCalls) + 1 =>
             LET call == VolumeCalls'[Len(VolumeCalls')]
                 odt  == OutputName(call.volume) \o DotOdt
                 pdf  == OutputName(call.volume) \o DotPdf
             IN  /\ call.result =
                       (env.template /\ call.volume \in DOMAIN fs.custom
                          /\ env.pandoc = "ok")
                 /\ call.result =>
                       /\ odt \in DOMAIN fs'.out
                       /\ fs'.out[odt] = Odt(fs.custom[call.volume])
                       /\ pdf \in DOMAIN fs'.out <=>
                             \/ pdf \in DOMAIN fs.out
                             \/ DecisiveCandidates(env.libreoffice, FALSE) # {}
                 /\ ~call.result => fs' = fs
         ]_vars

\* The pipeline has returned 0 with an ODT file and no PDF file in the
\* output directory: every candidate command of LibreOffice failed.
C26_Witness ==
    /\ pc = "exit" /\ rc = 0
    /\ VolumeCalls # <<>>
    /\ DecisiveCandidates(env.libreoffice, FALSE) = {}
    /\ \E o \in DOMAIN fs.out : EndsWith(o, DotOdt)
    /\ PdfFiles = {}

====
